---- MODULE Spec2Model ----
(***************************************************************************)
(* A state-machine model of the video generator: the Sequence Assembler    *)
(* (FFmpegAdapter.concat_scenes, _concat_simple, _add_background_music),    *)
(* the stock-footage adapter (PexelsAdapter.search_video) and the pipeline  *)
(* driver (GenerateVideoUseCase.execute).                                   *)
(*                                                                         *)
(* Durations are integers counting tenths of a second: 0.4 s is 4, 3.0 s is *)
(* 30, the 300.0 s default is 3000.  Every external command (ffprobe,       *)
(* ffmpeg, an HTTP request) is one step whose outcome the environment       *)
(* chooses; a non-zero exit is CalledProcessError in the source.            *)
(***************************************************************************)
EXTENDS Integers, Sequences, FiniteSets, TLC

(* ------------------------------ bounds --------------------------------- *)

\* Longest fragment list handed to concat_scenes in SpecConcat.
MaxScenes == 3

\* Fragment durations on disk (0.6 s, 0.8 s, 3.0 s, 4.0 s, 5.0 s).
FragmentDurations == {6, 8, 30, 40, 50}

\* Values of the transition_duration argument (0.4 s is the default).
TransitionDurations == {4, 10}

\* Lengths of the music file, shorter and longer than the videos.
MusicLengths == {20, 200}

(* ------------------------------ state ---------------------------------- *)

VARIABLES
    scene_files,          \* concat_scenes argument: the ordered fragment paths
    output_file,          \* concat_scenes argument, as its parts
    media,                \* disk: fragment path -> duration of the file
    transition_duration,  \* concat_scenes argument
    music_path,           \* concat_scenes argument: "none" | "present" | "missing"
    cs_pc,                \* position inside concat_scenes and its helpers
    durations,            \* concat_scenes local: the probed durations
    vf_parts,             \* concat_scenes local: the xfade steps
    af_parts,             \* concat_scenes local: the acrossfade steps
    simple_music,         \* _concat_simple argument music_path
    music_caller,         \* who called _add_background_music
    mix_in,               \* _add_background_music argument video_path (the file)
    video_duration,       \* _add_background_music local
    mix,                  \* the filter of the last music mix that ran
    fs_output,            \* disk: the file at output_file
    fs_temp,              \* disk: the file at <output>_no_music.mp4
    fs_list,              \* disk: concat_list.txt
    cmd_log,              \* every external command run, in order
    px_stack,             \* search_video frames: query, min_duration, call site
    px_pc,                \* position inside the top search_video frame
    px_output_path,       \* search_video argument, as its words
    px_file,              \* disk: the file at output_path
    px_requests,          \* every search request sent, by query, in order
    px_exception,         \* the exception in flight or raised
    px_result,            \* the VideoAsset returned
    raw_script,           \* the items of the script file
    script_lines,         \* execute local: the ScriptLine objects
    avatar,               \* self.avatar is set
    music_enabled,        \* config.enable_background_music and self.music
    disk,                 \* disk: the paths, other than fragments, that exist
    rerun,                \* a previous run has left its files in the project
    pc,                   \* position inside execute
    line_no,              \* execute local i, the index of the line in progress
    scenes,               \* execute local: the fragment paths collected so far
    audio_asset,          \* execute local: the AudioAsset of the line
    video_asset,          \* execute local: the VideoAsset of the line
    selected_music,       \* execute local music_path
    calls,                \* every adapter call made by execute, in order
    failures,             \* the places where a call of execute has failed
    rd_args,              \* the render in progress and its arguments
    rd_pc,                \* position inside the render
    rd_out,               \* disk: the streams of the file at the output path
    rd_text_files,        \* disk: the temporary text files in the assets dir
    hg_pc,                \* position inside generate_avatar_video
    hg_elapsed,           \* _poll_video_status local elapsed, in seconds
    hg_requests,          \* the status requests sent by _poll_video_status
    hg_status,            \* the answer to the last status request
    hg_output_path,       \* generate_avatar_video argument, as its parts
    hg_files,             \* disk: the paths generate_avatar_video has written
    hg_error,             \* the exception that left generate_avatar_video
    env,                  \* the environment variables that are set
    script_file,          \* disk: the script file exists
    use_avatar,           \* the entry point constructs a HeyGenAdapter
    st_pc,                \* position inside the start of the program
    mu_root,              \* disk: what is at the path of the music directory
    mu_children,          \* disk: what is at each path inside the music dir
    mu_contents,          \* disk: the entries of a directory inside music dir
    mu_pc,                \* the MusicAdapter is constructed or not
    mu_op,                \* the last MusicAdapter call and its arguments
    mu_result             \* what the last MusicAdapter call has returned

concatVars == <<scene_files, output_file, media, transition_duration, music_path, cs_pc,
                durations, vf_parts, af_parts, simple_music, music_caller,
                mix_in, video_duration, mix, fs_output, fs_temp, fs_list,
                cmd_log>>

pexelsVars == <<px_stack, px_pc, px_output_path, px_file, px_requests,
                px_exception, px_result>>

execVars == <<raw_script, script_lines, avatar, music_enabled, disk, rerun, pc,
              line_no, scenes, audio_asset, video_asset, selected_music, calls,
              failures>>

\* The state of concat_scenes that execute does not touch while it collects.
concatLocalVars == <<scene_files, output_file, transition_duration, music_path, cs_pc,
                     durations, vf_parts, af_parts, simple_music, music_caller,
                     mix_in, video_duration, mix, fs_output, fs_temp, fs_list,
                     cmd_log>>

renderVars == <<rd_args, rd_pc, rd_out, rd_text_files>>

heygenVars == <<hg_pc, hg_elapsed, hg_requests, hg_status, hg_output_path,
                hg_files, hg_error>>

startVars == <<env, script_file, use_avatar, st_pc>>

musicVars == <<mu_root, mu_children, mu_contents, mu_pc, mu_op, mu_result>>

\* The state outside execute, search_video and concat_scenes.
otherVars == <<renderVars, heygenVars, startVars, musicVars>>

notPexelsVars == <<concatVars, execVars, otherVars>>

notConcatVars == <<pexelsVars, execVars, otherVars>>

notRenderVars == <<concatVars, pexelsVars, execVars, heygenVars, startVars,
                   musicVars>>

notHeygenVars == <<concatVars, pexelsVars, execVars, renderVars, startVars,
                   musicVars>>

notMusicVars == <<concatVars, pexelsVars, execVars, renderVars, heygenVars,
                  startVars>>

vars == <<concatVars, pexelsVars, execVars, otherVars>>

(* ----------------------------- helpers --------------------------------- *)

Min2(a, b) == IF a < b THEN a ELSE b

Max2(a, b) == IF a > b THEN a ELSE b

Range(s) == {s[i] : i \in DOMAIN s}

RECURSIVE Sum(_)
Sum(s) == IF s = <<>> THEN 0 ELSE Head(s) + Sum(Tail(s))

MinOf(s) == CHOOSE x \in Range(s) : \A y \in Range(s) : x <= y

\* A naming of the fragments that forgets the line index.
ScenePathFixed(i) == "scene_0.mp4"

ScenePath(i) == "scene_" \o ToString(i) \o ".mp4"

(* ------------------------------ files ---------------------------------- *)

NoFile == [exists |-> FALSE, v |-> 0, a |-> 0, music |-> 0, cuts |-> "none"]

NoList == [exists |-> FALSE, lines |-> <<>>]

NoMix == [ran |-> FALSE, music_file |-> 0, trim |-> 0, fade_out_start |-> 0,
          music_len |-> 0, aout |-> 0, first |-> 0]

\* A rendered fragment: one video and one audio stream of the same length.
FragmentFile(p) ==
    [exists |-> TRUE, v |-> media[p], a |-> media[p], music |-> 0, cuts |-> "none"]

\* ffprobe -show_entries format=duration: the longest stream of the container.
Duration(f) == Max2(f.v, f.a)

Cmd(c, ok, arg) == [cmd |-> c, ok |-> ok, arg |-> arg]

CountCmd(c) == Cardinality({i \in DOMAIN cmd_log : cmd_log[i].cmd = c})

Failed(c) == \E i \in DOMAIN cmd_log : cmd_log[i].cmd = c /\ ~cmd_log[i].ok

Succeeded(c) == \E i \in DOMAIN cmd_log : cmd_log[i].cmd = c /\ cmd_log[i].ok

\* config.final_video_path: projects/{name}/final_output.mp4, as its parts.
FinalVideoPath == <<"final_output", ".mp4">>

\* Output paths, as their parts: the driver's, one whose directory carries
\* the extension too, one without the extension.
ConcatOutputPaths ==
    {FinalVideoPath, <<"out", ".mp4", "/final", ".mp4">>, <<"final", ".mov">>}

\* `temp_output = output_file.replace(".mp4", "_no_music.mp4")`
TempOutput(path) ==
    [i \in DOMAIN path |-> IF path[i] = ".mp4" THEN "_no_music.mp4" ELSE path[i]]

\* `os.rename(output_file, temp_output)`: it can fail (OSError) when the
\* replace has changed the directory of the path.
RenameOutcomes(path) ==
    IF \E i \in 1..(Len(path) - 1) : path[i] = ".mp4" THEN BOOLEAN ELSE {TRUE}

\* ffmpeg refuses an output that is one of its inputs.
MixOutcomes(video_path, output_path) ==
    IF video_path = output_path THEN {FALSE} ELSE BOOLEAN

(* ------------------- concat_scenes: pure computations ------------------ *)

\* A clean-up that leaves the play-list.
FinallyKeepList(list) == list

\* `finally: if os.path.exists(list_file): os.remove(list_file)`
Finally(list) == NoList

\* A guard that never takes the single-fragment branch.
IsSingleSceneNever(files) == Len(files) = 0

\* `if len(scene_files) == 1:`
IsSingleScene(files) == Len(files) = 1

\* A handler that re-raises instead of falling back.
OnXfadeErrorRaise == "raised"

\* `except subprocess.CalledProcessError` around the cross-fade block: where
\* control goes (`return self._concat_simple(scene_files, output_file, music_path)`).
OnXfadeError == "simple"

\* `music_path and os.path.exists(music_path)`
MusicAvailable(mp) == mp = "present"

\* A too-short test against one transition instead of two.
TooShortForOne(durs, t) == MinOf(durs) < t

\* The too-short test with the boundary on the wrong side.
TooShortOrEqual(durs, t) == MinOf(durs) <= 2 * t

\* `min(durations) < (2 * transition_duration)`
TooShort(durs, t) == MinOf(durs) < 2 * t

\* A first offset that forgets the overlap.
FirstOffsetNoOverlap(durs, t) == durs[1]

\* `offset = durations[0] - transition_duration`
FirstOffset(durs, t) == durs[1] - t

\* An offset that subtracts one transition too few.
XfadeOffsetStale(durs, i, t) == Sum(SubSeq(durs, 1, i)) - ((i - 1) * t)

\* `offset = sum(durations[:i]) - (i * transition_duration)`
XfadeOffset(durs, i, t) == Sum(SubSeq(durs, 1, i)) - (i * t)

\* vf_parts: the first transition, then `for i in range(2, len(scene_files))`.
BuildVfParts(durs, t) ==
    <<[duration |-> t, offset |-> FirstOffset(durs, t)]>> \o
    [k \in 1..(Len(durs) - 2) |->
        [duration |-> t, offset |-> XfadeOffset(durs, k + 1, t)]]

\* af_parts: one acrossfade=d=transition_duration per transition.
BuildAfParts(durs, t) == [k \in 1..(Len(durs) - 1) |-> [d |-> t]]

\* The music_path each fallback call site hands to _concat_simple.
FallbackMusic(site, mp) ==
    CASE site = "probe_failed" -> "none"
      [] site = "too_short"    -> "none"
      [] site = "xfade_failed" -> mp

(* ------------------------ ffmpeg: what a command yields ----------------- *)

\* xfade: the output runs to `offset`, then plays the whole second input.
XfadeVideoLength(files, vf) ==
    IF vf = <<>> THEN media[files[1]]
    ELSE vf[Len(vf)].offset + media[files[Len(vf) + 1]]

\* acrossfade: the two inputs overlap by d.
RECURSIVE XfadeAudioLength(_, _, _)
XfadeAudioLength(files, af, k) ==
    IF k = 0 THEN media[files[1]]
    ELSE XfadeAudioLength(files, af, k - 1) + media[files[k + 1]] - af[k].d

XfadeOutput(files, vf, af) ==
    [exists |-> TRUE, v |-> XfadeVideoLength(files, vf),
     a |-> XfadeAudioLength(files, af, Len(af)), music |-> 0, cuts |-> "xfade"]

\* The concat demuxer plays the files of the play-list one after the other.
ConcatOutput(lines) ==
    LET d == Sum([i \in DOMAIN lines |-> media[lines[i]]])
    IN  [exists |-> TRUE, v |-> d, a |-> d, music |-> 0, cuts |-> "hard"]

\* The single-fragment re-encode keeps both streams.
ReencodeOutput(p) == FragmentFile(p)

(* ------------------- _add_background_music: the filter ------------------ *)

\* `video_duration = 300.0  # Fallback to 5 minutes`
FallbackVideoDuration == 3000

\* `fade_duration = 0.5`
FadeDuration == 5

\* `fade_out_start = max(0, video_duration - fade_duration)`
FadeOutStart(vd) == Max2(0, vd - FadeDuration)

\* -stream_loop -1 / aloop=loop=-1: the music repeats until it covers `need`.
LoopedLength(m, need) == m * ((need + m - 1) \div m)

\* The looped music without the atrim.
MusicStreamUntrimmed(m, vd) == LoopedLength(m, vd)

\* `atrim=duration={video_duration}` on the looped music.
MusicStream(m, vd) == Min2(LoopedLength(m, vd), vd)

\* `amix=inputs=2:duration=first`
AmixLength(first, music) == first

\* `-shortest`: the output ends with its shortest stream.
Shortest(v, a) == Min2(v, a)

MixFilter(in, m, vd) ==
    [ran |-> TRUE, music_file |-> m, trim |-> vd,
     fade_out_start |-> FadeOutStart(vd),
     music_len |-> MusicStream(m, vd),
     aout |-> AmixLength(in.a, MusicStream(m, vd)), first |-> in.a]

MixOutput(in, m, vd) ==
    LET aout == AmixLength(in.a, MusicStream(m, vd))
    IN  [exists |-> TRUE, v |-> Shortest(in.v, aout), a |-> Shortest(in.v, aout),
         music |-> in.music + 1, cuts |-> in.cuts]

(* ===================== the renders of one fragment ====================== *)

\* The streams of a media file: how many video and audio streams it has and
\* the parameters of the first of each.
MediaFile(nv, na, size, fps, pix, ar, ac) ==
    [nv |-> nv, na |-> na, width |-> size[1], height |-> size[2], fps |-> fps,
     pix_fmt |-> pix, ar |-> ar, ac |-> ac]

NoMedia == MediaFile(0, 0, <<0, 0>>, 0, "none", 0, 0)

\* The parameters every fragment is meant to have.
StandardFragment == MediaFile(1, 1, <<1920, 1080>>, 25, "yuv420p", 48000, 2)

\* Frame sizes, frame rates and pixel formats of source clips.
SourceSizes == {<<1280, 720>>, <<1920, 1080>>, <<1080, 1920>>, <<3840, 2160>>}

SourceRates == {24, 25, 30}

SourcePixFmts == {"yuv420p", "yuv444p"}

\* Stock or custom clips for a scene: one video stream, with or without sound.
SceneVideos ==
    {MediaFile(1, na, s, r, p, IF na = 1 THEN 44100 ELSE 0, IF na = 1 THEN 2 ELSE 0) :
        na \in {0, 1}, s \in SourceSizes, r \in SourceRates, p \in SourcePixFmts}

\* The speech file of a scene: one mono audio stream.
SceneAudios == {MediaFile(0, 1, <<0, 0>>, 0, "none", 24000, 1)}

\* The outro source clip, with or without an audio track.
OutroSources ==
    {MediaFile(1, na, s, r, "yuv420p", IF na = 1 THEN 44100 ELSE 0, IF na = 1 THEN 2 ELSE 0) :
        na \in {0, 1}, s \in SourceSizes, r \in SourceRates}

\* The clip downloaded from the avatar provider: it carries the voice.
AvatarDownloads ==
    {MediaFile(1, 1, s, r, p, 44100, 1) :
        s \in SourceSizes, r \in SourceRates, p \in SourcePixFmts}

\* ceil(a / b)
CeilDiv(a, b) == (a + b - 1) \div b

\* `scale=1920:1080:force_original_aspect_ratio=increase`: the smallest size
\* of the source's shape that covers 1920x1080.
ScaleIncrease(w, h) ==
    IF w * 1080 >= h * 1920
    THEN <<CeilDiv(w * 1080, h), 1080>>
    ELSE <<1920, CeilDiv(h * 1920, w)>>

\* `scale=1920:1080:force_original_aspect_ratio=decrease`: the largest size
\* of the source's shape that fits in 1920x1080.
ScaleDecrease(w, h) ==
    IF w * 1080 >= h * 1920
    THEN <<1920, (h * 1920) \div w>>
    ELSE <<(w * 1080) \div h, 1080>>

\* `crop=1920:1080`
Crop(size) == <<Min2(size[1], 1920), Min2(size[2], 1080)>>

\* `pad=1920:1080:(ow-iw)/2:(oh-ih)/2:black`
Pad(size) == <<Max2(size[1], 1920), Max2(size[2], 1080)>>

\* The frame rate of the lavfi `color` source when no r= is given.
ColorSourceRate == 25

\* `-map 1:a`: every audio stream of the input.
MapAudio(in) == in.na

\* `-map 0:a?`: every audio stream of the input, none included.
MapAudioOptional(in) == in.na

\* No -map option: the best video stream and the best audio stream, if any.
DefaultAudio(in) == Min2(in.na, 1)

\* `-c:a aac -ar 48000 -ac 2` on na audio streams.
EncodeAudio(frag, na) ==
    [frag EXCEPT !.na = na, !.ar = IF na > 0 THEN 48000 ELSE 0,
                 !.ac = IF na > 0 THEN 2 ELSE 0]

\* `-c:v libx264 -pix_fmt yuv420p` on one video stream of this size and rate.
EncodeVideo(size, fps) ==
    MediaFile(1, 0, size, fps, "yuv420p", 0, 0)

\* render_scene: -map 0:v -map 1:a, scale, crop, fps=25.
SceneFragment(video, audio) ==
    EncodeAudio(EncodeVideo(Crop(ScaleIncrease(video.width, video.height)), 25),
                MapAudio(audio))

\* render_title_card: color=c=white:s=1920x1080 and anullsrc, -map 0:v -map 1:a.
TitleFragment == EncodeAudio(EncodeVideo(<<1920, 1080>>, ColorSourceRate), 1)

\* render_branded_intro, both variants: color=...:s=1920x1080:r=25 and anullsrc.
IntroFragment(has_logo) == EncodeAudio(EncodeVideo(<<1920, 1080>>, 25), 1)

\* render_logo_outro: the overlay on color=c=white:s=1920x1080:r=25, -map 0:a?.
OutroFragment(source) ==
    EncodeAudio(EncodeVideo(<<1920, 1080>>, 25), MapAudioOptional(source))

\* HeyGenAdapter._normalize_video: scale, pad, -r 25.
AvatarFragment(source) ==
    EncodeAudio(EncodeVideo(Pad(ScaleDecrease(source.width, source.height)), 25),
                DefaultAudio(source))

(* ------------------------- concat_scenes: steps ------------------------- *)

\* len(scene_files) == 1, no usable music: the re-encode command.
CsSingleCopy ==
    /\ cs_pc = "start"
    /\ IsSingleScene(scene_files)
    /\ ~MusicAvailable(music_path)
    /\ \E ok \in BOOLEAN :
        /\ cmd_log' = Append(cmd_log, Cmd("single_copy", ok, <<>>))
        /\ IF ok
           THEN fs_output' = ReencodeOutput(scene_files[1]) /\ cs_pc' = "done"
           ELSE fs_output' = fs_output /\ cs_pc' = "raised"
    /\ UNCHANGED <<scene_files, output_file, media, transition_duration, music_path, durations,
                   vf_parts, af_parts, simple_music, music_caller, mix_in,
                   video_duration, mix, fs_temp, fs_list>>
    /\ UNCHANGED notConcatVars

\* len(scene_files) == 1 with music: _add_background_music(scene_files[0], ...).
CsSingleMusic ==
    /\ cs_pc = "start"
    /\ IsSingleScene(scene_files)
    /\ MusicAvailable(music_path)
    /\ mix_in' = FragmentFile(scene_files[1])
    /\ music_caller' = "single"
    /\ cs_pc' = "music_probe"
    /\ UNCHANGED <<scene_files, output_file, media, transition_duration, music_path, durations,
                   vf_parts, af_parts, simple_music, video_duration, mix,
                   fs_output, fs_temp, fs_list, cmd_log>>
    /\ UNCHANGED notConcatVars

\* One ffprobe of the duration loop; a failure returns _concat_simple(files, out).
CsProbe ==
    /\ cs_pc \in {"start", "probe"}
    /\ ~IsSingleScene(scene_files)
    /\ Len(durations) < Len(scene_files)
    /\ \E ok \in BOOLEAN :
        /\ cmd_log' = Append(cmd_log, Cmd("ffprobe", ok, <<>>))
        /\ IF ok
           THEN /\ durations' = Append(durations, media[scene_files[Len(durations) + 1]])
                /\ cs_pc' = "probe"
                /\ simple_music' = simple_music
           ELSE /\ durations' = durations
                /\ cs_pc' = "simple"
                /\ simple_music' = FallbackMusic("probe_failed", music_path)
    /\ UNCHANGED <<scene_files, output_file, media, transition_duration, music_path, vf_parts,
                   af_parts, music_caller, mix_in, video_duration, mix,
                   fs_output, fs_temp, fs_list>>
    /\ UNCHANGED notConcatVars

\* After the loop: the too-short check, then the filter chain.
CsCheckDurations ==
    /\ cs_pc = "probe"
    /\ Len(durations) = Len(scene_files)
    /\ IF TooShort(durations, transition_duration)
       THEN /\ cs_pc' = "simple"
            /\ simple_music' = FallbackMusic("too_short", music_path)
            /\ UNCHANGED <<vf_parts, af_parts>>
       ELSE /\ vf_parts' = BuildVfParts(durations, transition_duration)
            /\ af_parts' = BuildAfParts(durations, transition_duration)
            /\ cs_pc' = "xfade"
            /\ simple_music' = simple_music
    /\ UNCHANGED <<scene_files, output_file, media, transition_duration, music_path, durations,
                   music_caller, mix_in, video_duration, mix, fs_output, fs_temp,
                   fs_list, cmd_log>>
    /\ UNCHANGED notConcatVars

\* The cross-fade command; on success the music post-pass begins with a rename.
CsXfade ==
    /\ cs_pc = "xfade"
    /\ \E ok \in BOOLEAN :
        /\ cmd_log' = Append(cmd_log, Cmd("xfade", ok, <<>>))
        /\ IF ok
           THEN LET out == XfadeOutput(scene_files, vf_parts, af_parts) IN
                IF MusicAvailable(music_path)
                THEN \E renamed \in RenameOutcomes(output_file) :
                     /\ fs_temp' = IF renamed /\ TempOutput(output_file) # output_file
                                   THEN out ELSE fs_temp
                     /\ fs_output' = IF renamed /\ TempOutput(output_file) # output_file
                                     THEN NoFile ELSE out
                     /\ mix_in' = IF renamed THEN out ELSE mix_in
                     /\ music_caller' = IF renamed THEN "xfade" ELSE music_caller
                     /\ cs_pc' = IF renamed THEN "music_probe" ELSE "raised"
                     /\ simple_music' = simple_music
                ELSE /\ fs_output' = out
                     /\ cs_pc' = "done"
                     /\ UNCHANGED <<fs_temp, mix_in, music_caller, simple_music>>
           ELSE /\ cs_pc' = OnXfadeError
                /\ simple_music' = FallbackMusic("xfade_failed", music_path)
                /\ UNCHANGED <<fs_output, fs_temp, mix_in, music_caller>>
    /\ UNCHANGED <<scene_files, output_file, media, transition_duration, music_path, durations,
                   vf_parts, af_parts, video_duration, mix, fs_list>>
    /\ UNCHANGED notConcatVars

\* _concat_simple: write concat_list.txt.
CsWriteList ==
    /\ cs_pc = "simple"
    /\ fs_list' = [exists |-> TRUE, lines |-> scene_files]
    /\ cs_pc' = "simple_run"
    /\ UNCHANGED <<scene_files, output_file, media, transition_duration, music_path, durations,
                   vf_parts, af_parts, simple_music, music_caller, mix_in,
                   video_duration, mix, fs_output, fs_temp, cmd_log>>
    /\ UNCHANGED notConcatVars

\* _concat_simple: the concat command, then the music post-pass or the cleanup.
CsConcatSimple ==
    /\ cs_pc = "simple_run"
    /\ \E ok \in BOOLEAN :
        /\ cmd_log' = Append(cmd_log, Cmd("concat", ok, fs_list.lines))
        /\ IF ok
           THEN LET out == ConcatOutput(fs_list.lines) IN
                IF MusicAvailable(simple_music)
                THEN \E renamed \in RenameOutcomes(output_file) :
                     /\ fs_temp' = IF renamed /\ TempOutput(output_file) # output_file
                                   THEN out ELSE fs_temp
                     /\ fs_output' = IF renamed /\ TempOutput(output_file) # output_file
                                     THEN NoFile ELSE out
                     /\ mix_in' = IF renamed THEN out ELSE mix_in
                     /\ music_caller' = IF renamed THEN "simple" ELSE music_caller
                     /\ cs_pc' = IF renamed THEN "music_probe" ELSE "raised"
                     /\ fs_list' = IF renamed THEN fs_list ELSE Finally(fs_list)
                ELSE /\ fs_output' = out
                     /\ fs_list' = Finally(fs_list)
                     /\ cs_pc' = "done"
                     /\ UNCHANGED <<fs_temp, mix_in, music_caller>>
           ELSE /\ fs_list' = Finally(fs_list)
                /\ cs_pc' = "raised"
                /\ UNCHANGED <<fs_output, fs_temp, mix_in, music_caller>>
    /\ UNCHANGED <<scene_files, output_file, media, transition_duration, music_path, durations,
                   vf_parts, af_parts, simple_music, video_duration, mix>>
    /\ UNCHANGED notConcatVars

\* _add_background_music: the ffprobe of video_path, 300.0 when it fails.
AddMusicProbe ==
    /\ cs_pc = "music_probe"
    /\ \E ok \in BOOLEAN :
        /\ cmd_log' = Append(cmd_log, Cmd("ffprobe_music", ok, <<>>))
        /\ video_duration' = IF ok THEN Duration(mix_in) ELSE FallbackVideoDuration
    /\ cs_pc' = "music_mix"
    /\ UNCHANGED <<scene_files, output_file, media, transition_duration, music_path, durations,
                   vf_parts, af_parts, simple_music, music_caller, mix_in, mix,
                   fs_output, fs_temp, fs_list>>
    /\ UNCHANGED notConcatVars

\* _add_background_music: the mix command, and what its caller does next.
AddMusicMix ==
    /\ cs_pc = "music_mix"
    /\ \E ok \in MixOutcomes(IF music_caller = "single" THEN <<scene_files[1]>>
                             ELSE TempOutput(output_file), output_file),
          m \in MusicLengths :
        /\ cmd_log' = Append(cmd_log, Cmd("mix", ok, <<music_caller>>))
        /\ IF ok
           THEN /\ fs_output' = MixOutput(mix_in, m, video_duration)
                /\ mix' = MixFilter(mix_in, m, video_duration)
                /\ cs_pc' = "done"
                /\ fs_temp' = IF music_caller = "single" THEN fs_temp ELSE NoFile
                /\ fs_list' = IF music_caller = "simple" THEN Finally(fs_list) ELSE fs_list
                /\ simple_music' = simple_music
           ELSE /\ UNCHANGED <<fs_output, fs_temp, mix>>
                /\ IF music_caller = "xfade"
                   THEN /\ cs_pc' = OnXfadeError
                        /\ simple_music' = FallbackMusic("xfade_failed", music_path)
                        /\ fs_list' = fs_list
                   ELSE /\ cs_pc' = "raised"
                        /\ simple_music' = simple_music
                        /\ fs_list' = IF music_caller = "simple" THEN Finally(fs_list) ELSE fs_list
    /\ UNCHANGED <<scene_files, output_file, media, transition_duration, music_path, durations,
                   vf_parts, af_parts, music_caller, mix_in, video_duration>>
    /\ UNCHANGED notConcatVars

ConcatNext ==
    \/ CsSingleCopy
    \/ CsSingleMusic
    \/ CsProbe
    \/ CsCheckDurations
    \/ CsXfade
    \/ CsWriteList
    \/ CsConcatSimple
    \/ AddMusicProbe
    \/ AddMusicMix

\* The locals and files of concat_scenes before any of its steps.
ConcatLocals ==
    /\ durations = <<>>
    /\ vf_parts = <<>>
    /\ af_parts = <<>>
    /\ simple_music = "none"
    /\ music_caller = "none"
    /\ mix_in = NoFile
    /\ video_duration = 0
    /\ mix = NoMix
    /\ fs_output = NoFile
    /\ fs_temp = NoFile
    /\ fs_list = NoList
    /\ cmd_log = <<>>

\* No concat_scenes call is in progress.
ConcatIdle ==
    /\ cs_pc = "idle"
    /\ scene_files = <<>>
    /\ output_file = <<>>
    /\ media = <<>>
    /\ transition_duration = 0
    /\ music_path = "none"
    /\ ConcatLocals

\* No search_video call is in progress.
PexelsIdle ==
    /\ px_stack = <<>>
    /\ px_pc = "idle"
    /\ px_output_path = <<>>
    /\ px_file = "missing"
    /\ px_requests = <<>>
    /\ px_exception = "none"
    /\ px_result = [file_path |-> <<>>, width |-> 0]

\* No execute call is in progress.
ExecIdle ==
    /\ raw_script = <<>>
    /\ script_lines = <<>>
    /\ avatar = FALSE
    /\ music_enabled = FALSE
    /\ disk = {}
    /\ rerun = FALSE
    /\ pc = "idle"
    /\ line_no = 0
    /\ scenes = <<>>
    /\ audio_asset = [file_path |-> "", duration |-> 0]
    /\ video_asset = [file_path |-> ""]
    /\ selected_music = "none"
    /\ calls = <<>>
    /\ failures = {}

\* No render is in progress.
RenderIdle ==
    /\ rd_args = [kind |-> "none", video |-> NoMedia, audio |-> NoMedia,
                  logo |-> FALSE, highlight_word |-> ""]
    /\ rd_pc = "idle"
    /\ rd_out = NoMedia
    /\ rd_text_files = {}

\* No generate_avatar_video call is in progress.
HeyGenIdle ==
    /\ hg_pc = "idle"
    /\ hg_output_path = <<>>
    /\ hg_elapsed = 0
    /\ hg_requests = 0
    /\ hg_status = "none"
    /\ hg_files = {}
    /\ hg_error = "none"

\* The program is not being started; the script file is in place.
StartIdle ==
    /\ env = {}
    /\ script_file = TRUE
    /\ use_avatar = FALSE
    /\ st_pc = "idle"

\* No MusicAdapter exists; the music directory is in place and empty.
MusicIdle ==
    /\ mu_root = "dir"
    /\ mu_children = [name \in {} |-> "missing"]
    /\ mu_contents = {}
    /\ mu_pc = "idle"
    /\ mu_op = [op |-> "none"]
    /\ mu_result = [kind |-> "none"]

OtherIdle == RenderIdle /\ HeyGenIdle /\ StartIdle /\ MusicIdle

\* concat_scenes called on 1..MaxScenes fragments of any of the durations.
ConcatInit ==
    /\ \E n \in 1..MaxScenes :
        /\ scene_files = [i \in 1..n |-> ScenePath(i - 1)]
        /\ media \in [{ScenePath(i - 1) : i \in 1..n} -> FragmentDurations]
    /\ output_file \in ConcatOutputPaths
    /\ transition_duration \in TransitionDurations
    /\ music_path \in {"none", "present", "missing"}
    /\ cs_pc = "start"
    /\ ConcatLocals
    /\ PexelsIdle
    /\ ExecIdle
    /\ OtherIdle

SpecConcat == ConcatInit /\ [][ConcatNext]_vars

(* ====================== PexelsAdapter.search_video ====================== *)

\* Depth at which the interpreter refuses another nested search_video call.
RecursionLimit == 3

\* Queries of the first call: a line's search phrase, the driver's fixed
\* fallback query, the adapter's own generic query.
Queries == {"ocean waves", "abstract dark luxury texture cinematic",
            "abstract digital background"}

\* Output paths, as their words: a project called default, one called abstract.
OutputPaths == {<<"projects", "default", "assets", "video_raw_0", "mp4">>,
                <<"projects", "abstract", "assets", "video_raw_0", "mp4">>}

\* The video_files lists a search can return, by the files' widths.
VideoFileLists == {<<>>, <<1280>>, <<1280, 1920>>}

\* What one search request can yield.
SearchResponses ==
    {[kind |-> "error", files |-> <<>>], [kind |-> "no_videos", files |-> <<>>]}
    \cup {[kind |-> "videos", files |-> f] : f \in VideoFileLists}

\* `self.search_video("abstract digital background", output_path, 0)`
GenericQuery == "abstract digital background"

\* `"abstract" not in output_path`, on the words of the path.
MentionsAbstract(path) == \E i \in DOMAIN path : path[i] = "abstract"

\* A cache test on existence alone.
IsCachedExists(file) == file # "missing"

\* `os.path.exists(output_path) and os.path.getsize(output_path) > 0`
IsCached(file) == file = "nonempty"

\* The first file at least 1920 wide, else the first file, else None (0).
BestVideo(files) ==
    IF \E i \in DOMAIN files : files[i] >= 1920
    THEN files[CHOOSE i \in DOMAIN files :
                  /\ files[i] >= 1920
                  /\ \A j \in DOMAIN files : files[j] >= 1920 => i <= j]
    ELSE IF files # <<>> THEN files[1] ELSE 0

NoAsset == [file_path |-> <<>>, width |-> 0]

Frame(q, d) == [query |-> q, min_duration |-> d, site |-> "body", best |-> 0]

TopFrame == px_stack[Len(px_stack)]

AtSite(site) == [px_stack EXCEPT ![Len(px_stack)].site = site]

\* search_video entry: the cache check.  A cached file is returned through
\* every `return self.search_video(...)` of the frames below.
PxEnter ==
    /\ px_pc = "enter"
    /\ IF IsCached(px_file)
       THEN /\ px_pc' = "done"
            /\ px_stack' = <<>>
            /\ px_result' = [file_path |-> px_output_path, width |-> 1920]
       ELSE /\ px_pc' = "search"
            /\ UNCHANGED <<px_stack, px_result>>
    /\ UNCHANGED <<px_output_path, px_file, px_requests, px_exception>>
    /\ UNCHANGED notPexelsVars

\* The search request and the choice of best_video.
PxSearch ==
    /\ px_pc = "search"
    /\ px_requests' = Append(px_requests, TopFrame.query)
    /\ \E r \in SearchResponses :
        CASE r.kind = "error" ->
                px_pc' = "fallback" /\ px_stack' = AtSite("tail")
          [] r.kind = "no_videos" ->
                px_pc' = "fallback" /\ px_stack' = AtSite("try")
          [] r.kind = "videos" ->
                IF BestVideo(r.files) = 0
                THEN px_pc' = "fallback" /\ px_stack' = AtSite("tail")
                ELSE /\ px_pc' = "download"
                     /\ px_stack' = [px_stack EXCEPT
                                        ![Len(px_stack)].best = BestVideo(r.files)]
    /\ UNCHANGED <<px_output_path, px_file, px_result, px_exception>>
    /\ UNCHANGED notPexelsVars

\* `requests.get(link).content`, written to output_path.
PxDownload ==
    /\ px_pc = "download"
    /\ \E got \in {"nonempty", "empty", "error"} :
        IF got = "error"
        THEN /\ px_pc' = "fallback"
             /\ px_stack' = AtSite("tail")
             /\ UNCHANGED <<px_file, px_result>>
        ELSE /\ px_file' = got
             /\ px_result' = [file_path |-> px_output_path, width |-> TopFrame.best]
             /\ px_pc' = "done"
             /\ px_stack' = <<>>
    /\ UNCHANGED <<px_output_path, px_requests, px_exception>>
    /\ UNCHANGED notPexelsVars

\* _fallback_download: one more search_video unless the path mentions abstract.
PxFallback ==
    /\ px_pc = "fallback"
    /\ IF ~MentionsAbstract(px_output_path)
       THEN IF Len(px_stack) < RecursionLimit
            THEN /\ px_stack' = Append(px_stack, Frame(GenericQuery, 0))
                 /\ px_pc' = "enter"
                 /\ px_exception' = px_exception
            ELSE /\ px_exception' = "RecursionError"
                 /\ px_pc' = "unwind"
                 /\ px_stack' = px_stack
       ELSE /\ px_exception' = "RuntimeError"
            /\ px_pc' = "unwind"
            /\ px_stack' = px_stack
    /\ UNCHANGED <<px_output_path, px_file, px_requests, px_result>>
    /\ UNCHANGED notPexelsVars

\* An exception leaving _fallback_download: `except Exception` catches it when
\* the call stood inside the try (line 34), and line 63 then calls again;
\* from line 63 it leaves the frame.
PxUnwind ==
    /\ px_pc = "unwind"
    /\ IF TopFrame.site = "try"
       THEN /\ px_stack' = AtSite("tail")
            /\ px_pc' = "fallback"
            /\ px_exception' = "none"
       ELSE /\ px_stack' = SubSeq(px_stack, 1, Len(px_stack) - 1)
            /\ px_pc' = IF Len(px_stack) = 1 THEN "raised" ELSE "unwind"
            /\ px_exception' = px_exception
    /\ UNCHANGED <<px_output_path, px_file, px_requests, px_result>>
    /\ UNCHANGED notPexelsVars

PexelsNext ==
    \/ PxEnter
    \/ PxSearch
    \/ PxDownload
    \/ PxFallback
    \/ PxUnwind

\* search_video(query, output_path, min_duration) has just been called.
PexelsInit ==
    /\ \E q \in Queries : px_stack = <<Frame(q, 30)>>
    /\ px_pc = "enter"
    /\ px_output_path \in OutputPaths
    /\ px_file \in {"missing", "empty", "nonempty"}
    /\ px_requests = <<>>
    /\ px_exception = "none"
    /\ px_result = NoAsset
    /\ ConcatIdle
    /\ ExecIdle
    /\ OtherIdle

SpecPexels == PexelsInit /\ [][PexelsNext]_vars

(* =================== GenerateVideoUseCase.execute ======================= *)

\* Longest script handed to execute.
MaxLines == 2

\* Durations the speech adapter can probe for a line (4.0 s).
AudioDurations == {40}

\* `duration=3.0` of render_branded_intro and of render_title_card.
IntroDuration == 30

TitleDuration == 30

\* Length of a generated avatar clip (3.0 s).
AvatarDuration == 30

\* Length of the outro source clip (5.0 s).
OutroDuration == 50

\* `transition_duration=0.4` in the concat_scenes call of execute.
DriverTransition == 4

\* EdgeTTSAdapter._get_duration: `except ValueError: return 0.0`
ProbeFallbackDuration == 0

IntroOutput == "intro_branded.mp4"

OutroSource == "vidu-video-3072694396319459.mov"

OutroNormalized == "outro_normalized.mp4"

AudioPath(i) == "audio_" \o ToString(i) \o ".mp3"

VideoRawPath(i) == "video_raw_" \o ToString(i) \o ".mp4"

\* The custom media file that exists, and one that does not.
OwnMedia == "media/own.mp4"

LostMedia == "media/lost.mp4"

\* The adapter's own generic query in place of the driver's fallback query.
FallbackQueryGeneric == "abstract digital background"

\* `fallback_query = "abstract dark luxury texture cinematic"`
FallbackQuery == "abstract dark luxury texture cinematic"

\* Script items as the JSON objects of the file; a text is its tokens.
TitleItem == [text |-> <<"Chapter", "one">>, type |-> "title"]

TitleSceneItem ==
    [text |-> <<"Chapter", "two">>, scene_type |-> "title", search_query |-> "city"]

AvatarItem ==
    [text |-> <<"Hello">>, scene_type |-> "avatar", search_query |-> "presenter"]

BrollItem == [text |-> <<"calm", "sea">>, search_query |-> "ocean waves"]

OwnMediaItem ==
    [text |-> <<"our", "product">>, search_query |-> "office",
     highlight_word |-> "product", custom_media_path |-> OwnMedia]

LostMediaItem ==
    [text |-> <<"the", "ocean", "waves", "!">>, search_query |-> "ocean waves",
     custom_media_path |-> LostMedia]

LostMediaHighlightItem ==
    [text |-> <<"the", "ocean", "waves", "!">>, search_query |-> "ocean waves",
     highlight_word |-> "the", custom_media_path |-> LostMedia]

LostMediaNoWordsItem ==
    [text |-> <<"...", "!">>, search_query |-> "ocean waves",
     custom_media_path |-> LostMedia]

ScriptItems == {TitleItem, TitleSceneItem, AvatarItem, BrollItem, OwnMediaItem,
                LostMediaItem, LostMediaHighlightItem, LostMediaNoWordsItem}

Scripts == UNION {[1..n -> ScriptItems] : n \in 0..MaxLines}

\* `item.get(key, default)`; None is the empty string.
Get(item, key, default) == IF key \in DOMAIN item THEN item[key] ELSE default

\* The ScriptLine built from one item of the file.
ParseItem(item) ==
    [text |-> item.text,
     search_query |-> Get(item, "search_query", ""),
     type |-> Get(item, "type", "speech"),
     highlight_word |-> Get(item, "highlight_word", ""),
     custom_media_path |-> Get(item, "custom_media_path", ""),
     scene_type |-> Get(item, "scene_type", "broll")]

\* A routing that looks at type only when it looks for a title.
RouteByType(line, has_avatar) ==
    IF line.type = "title" THEN "title"
    ELSE IF line.scene_type = "avatar" /\ has_avatar THEN "avatar"
    ELSE "broll"

\* `line.scene_type == "title" or line.type == "title"`, then the avatar test.
Route(line, has_avatar) ==
    IF line.scene_type = "title" \/ line.type = "title" THEN "title"
    ELSE IF line.scene_type = "avatar" /\ has_avatar THEN "avatar"
    ELSE "broll"

\* Tokens that `\w+` does not match.
Punctuation == {"...", "!"}

IsWord(tok) == tok \notin Punctuation

\* `re.findall(r'\w+', line.text)`
Words(text) == SelectSeq(text, IsWord)

\* A choice of the last of the longest words.
LongestWordLast(words) ==
    words[CHOOSE i \in DOMAIN words :
            \A j \in DOMAIN words :
                /\ Len(words[j]) <= Len(words[i])
                /\ Len(words[j]) = Len(words[i]) => j <= i]

\* `max(words, key=len)`: the first of the longest words.
LongestWord(words) ==
    words[CHOOSE i \in DOMAIN words :
            \A j \in DOMAIN words :
                /\ Len(words[j]) <= Len(words[i])
                /\ Len(words[j]) = Len(words[i]) => i <= j]

\* The highlight word after the missing-custom-media branch.
Backfill(line) ==
    IF line.highlight_word = "" /\ Words(line.text) # <<>>
    THEN [line EXCEPT !.highlight_word = LongestWord(Words(line.text))]
    ELSE line

\* An intro step without the existence test.
NeedsIntroRenderAlways(m) == TRUE

\* `not os.path.exists(intro_output)`
NeedsIntroRender(m) == IntroOutput \notin DOMAIN m

\* An outro step without the existence test.
NeedsOutroRenderAlways(m) == TRUE

\* `not os.path.exists(outro_normalized)`
NeedsOutroRender(m) == OutroNormalized \notin DOMAIN m

\* A driver that goes on to the assembly after a failed per-line render.
OnErrorAssemble(site) ==
    IF site \in {"render_scene", "render_title_card", "generate_avatar_video"}
    THEN "music" ELSE "raised"

\* A driver that swallows a failed scene render and returns.
OnErrorSilent(site) == IF site = "render_scene" THEN "done" ELSE "raised"

\* execute has one try block, around the music selection; an exception
\* raised anywhere else leaves execute.
OnError(site) == "raised"

\* A search that asks for no minimum duration.
MinDurationZero(audio) == 0

\* `audio_asset.duration`, the third argument of both search_video calls.
MinDuration(audio) == audio.duration

\* The raw video file of line i as search_video finds it.
RawFile(i, files) == IF VideoRawPath(i) \in files THEN "nonempty" ELSE "missing"

\* One adapter call of execute: the method, the line index, the arguments.
Call(op, i, arg) == [op |-> op, line |-> i, arg |-> arg]

CurrentLine == script_lines[line_no + 1]

\* What search_video can do for execute (see SpecPexels): a cached file
\* costs no request, a first search that succeeds costs one, a success after
\* the generic retry costs two (one retry stands for any number of them),
\* and the exception leaves after the last nested call.
SearchOutcomes(cached) ==
    IF cached
    THEN {[ok |-> TRUE, http |-> 0]}
    ELSE {[ok |-> TRUE, http |-> n] : n \in 1..2}
         \cup {[ok |-> FALSE, http |-> RecursionLimit]}

\* What generate_audio can do: the edge-tts command fails, or it succeeds and
\* the duration probe yields the duration or the 0.0 default.
TTSOutcomes ==
    {[ok |-> FALSE, probed |-> FALSE, duration |-> 0],
     [ok |-> TRUE, probed |-> FALSE, duration |-> ProbeFallbackDuration]}
    \cup {[ok |-> TRUE, probed |-> TRUE, duration |-> d] : d \in AudioDurations}

\* The rough total of execute: the first three probed durations, scaled.
EstimateTotal(files, m, probed) ==
    LET k == Min2(3, Len(files))
        first == [j \in 1..k |-> IF probed THEN m[files[j]] ELSE 0]
    IN (Sum(first) * Len(files)) \div k

(* ---------------------------- execute: steps ---------------------------- *)

\* Lines 27-39: open and parse the script, build the ScriptLine list.
ExecLoad ==
    /\ pc = "load"
    /\ \E ok \in (IF script_file THEN BOOLEAN ELSE {FALSE}) :
        IF ok
        THEN /\ script_lines' = [k \in DOMAIN raw_script |-> ParseItem(raw_script[k])]
             /\ pc' = "intro"
             /\ failures' = failures
        ELSE /\ pc' = OnError("load_script")
             /\ failures' = failures \cup {"load_script"}
             /\ script_lines' = script_lines
    /\ UNCHANGED <<raw_script, avatar, music_enabled, disk, rerun, line_no, scenes,
                   audio_asset, video_asset, selected_music, calls, media>>
    /\ UNCHANGED <<pexelsVars, concatLocalVars, otherVars>>

\* Lines 44-47: the branded intro, rendered unless its file exists.
ExecIntro ==
    /\ pc = "intro"
    /\ IF NeedsIntroRender(media)
       THEN \E ok \in BOOLEAN :
            /\ calls' = Append(calls, Call("render_branded_intro", -1,
                                           [output |-> IntroOutput]))
            /\ IF ok
               THEN /\ media' = (IntroOutput :> IntroDuration) @@ media
                    /\ scenes' = Append(scenes, IntroOutput)
                    /\ pc' = "line"
                    /\ failures' = failures
               ELSE /\ pc' = OnError("render_branded_intro")
                    /\ failures' = failures \cup {"render_branded_intro"}
                    /\ UNCHANGED <<media, scenes>>
       ELSE /\ scenes' = Append(scenes, IntroOutput)
            /\ pc' = "line"
            /\ UNCHANGED <<calls, media, failures>>
    /\ UNCHANGED <<raw_script, script_lines, avatar, music_enabled, disk, rerun,
                   line_no, audio_asset, video_asset, selected_music>>
    /\ UNCHANGED <<pexelsVars, concatLocalVars, otherVars>>

\* Lines 57-61: a title line is rendered as a title card.
ExecTitle ==
    /\ pc = "line"
    /\ line_no < Len(script_lines)
    /\ Route(CurrentLine, avatar) = "title"
    /\ calls' = Append(calls, Call("render_title_card", line_no,
                                   [text |-> CurrentLine.text,
                                    output |-> ScenePath(line_no)]))
    /\ \E ok \in BOOLEAN :
        IF ok
        THEN /\ media' = (ScenePath(line_no) :> TitleDuration) @@ media
             /\ scenes' = Append(scenes, ScenePath(line_no))
             /\ line_no' = line_no + 1
             /\ pc' = "line"
             /\ failures' = failures
        ELSE /\ pc' = OnError("render_title_card")
             /\ failures' = failures \cup {"render_title_card"}
             /\ UNCHANGED <<media, scenes, line_no>>
    /\ UNCHANGED <<raw_script, script_lines, avatar, music_enabled, disk, rerun,
                   audio_asset, video_asset, selected_music>>
    /\ UNCHANGED <<pexelsVars, concatLocalVars, otherVars>>

\* Lines 63-77: an avatar line with an avatar provider configured.
ExecAvatar ==
    /\ pc = "line"
    /\ line_no < Len(script_lines)
    /\ Route(CurrentLine, avatar) = "avatar"
    /\ calls' = Append(calls, Call("generate_avatar_video", line_no,
                                   [text |-> CurrentLine.text,
                                    output |-> ScenePath(line_no)]))
    /\ \E ok \in BOOLEAN :
        IF ok
        THEN /\ media' = (ScenePath(line_no) :> AvatarDuration) @@ media
             /\ scenes' = Append(scenes, ScenePath(line_no))
             /\ line_no' = line_no + 1
             /\ pc' = "line"
             /\ failures' = failures
        ELSE /\ pc' = OnError("generate_avatar_video")
             /\ failures' = failures \cup {"generate_avatar_video"}
             /\ UNCHANGED <<media, scenes, line_no>>
    /\ UNCHANGED <<raw_script, script_lines, avatar, music_enabled, disk, rerun,
                   audio_asset, video_asset, selected_music>>
    /\ UNCHANGED <<pexelsVars, concatLocalVars, otherVars>>

\* Line 85: speech for a broll line, generated on every run.
ExecTTS ==
    /\ pc = "line"
    /\ line_no < Len(script_lines)
    /\ Route(CurrentLine, avatar) = "broll"
    /\ calls' = Append(calls, Call("generate_audio", line_no,
                                   [text |-> CurrentLine.text,
                                    output |-> AudioPath(line_no),
                                    highlight_word |-> CurrentLine.highlight_word]))
    /\ \E r \in TTSOutcomes :
        IF r.ok
        THEN /\ audio_asset' = [file_path |-> AudioPath(line_no),
                                duration |-> r.duration]
             /\ disk' = disk \cup {AudioPath(line_no)}
             /\ pc' = "media"
             /\ failures' = IF r.probed THEN failures
                            ELSE failures \cup {"tts_probe"}
        ELSE /\ pc' = OnError("generate_audio")
             /\ failures' = failures \cup {"generate_audio"}
             /\ UNCHANGED <<audio_asset, disk>>
    /\ UNCHANGED <<raw_script, script_lines, avatar, music_enabled, rerun, line_no,
                   scenes, video_asset, selected_music, media>>
    /\ UNCHANGED <<pexelsVars, concatLocalVars, otherVars>>

\* Lines 89-126: the custom file, or a search for the fallback query followed
\* by the highlight-word backfill, or a search for the line's own query.
ExecMedia ==
    /\ pc = "media"
    /\ LET line == CurrentLine
           custom == line.custom_media_path
       IN IF custom # "" /\ custom \in disk
          THEN /\ video_asset' = [file_path |-> custom]
               /\ pc' = "render"
               /\ UNCHANGED <<calls, disk, failures, script_lines>>
          ELSE \E r \in SearchOutcomes(IsCached(RawFile(line_no, disk))) :
               /\ calls' = Append(calls, Call("search_video", line_no,
                      [query |-> IF custom # "" THEN FallbackQuery
                                 ELSE line.search_query,
                       output |-> VideoRawPath(line_no),
                       min_duration |-> MinDuration(audio_asset),
                       http |-> r.http]))
               /\ IF r.ok
                  THEN /\ video_asset' = [file_path |-> VideoRawPath(line_no)]
                       /\ disk' = disk \cup {VideoRawPath(line_no)}
                       /\ script_lines' =
                              IF custom # ""
                              THEN [script_lines EXCEPT
                                       ![line_no + 1] = Backfill(line)]
                              ELSE script_lines
                       /\ pc' = "render"
                       /\ failures' = IF r.http > 1
                                      THEN failures \cup {"media_search"}
                                      ELSE failures
                  ELSE /\ pc' = OnError("search_video")
                       /\ failures' = failures \cup {"media_search", "search_video"}
                       /\ UNCHANGED <<video_asset, disk, script_lines>>
    /\ UNCHANGED <<raw_script, avatar, music_enabled, rerun, line_no, scenes,
                   audio_asset, selected_music, media>>
    /\ UNCHANGED <<pexelsVars, concatLocalVars, otherVars>>

\* Lines 129-137: render the scene for the duration of its audio.
ExecRender ==
    /\ pc = "render"
    /\ calls' = Append(calls, Call("render_scene", line_no,
                                   [audio |-> audio_asset, video |-> video_asset,
                                    highlight_word |-> CurrentLine.highlight_word,
                                    output |-> ScenePath(line_no)]))
    /\ \E ok \in BOOLEAN :
        IF ok
        THEN /\ media' = (ScenePath(line_no) :> audio_asset.duration) @@ media
             /\ scenes' = Append(scenes, ScenePath(line_no))
             /\ line_no' = line_no + 1
             /\ pc' = "line"
             /\ failures' = failures
        ELSE /\ pc' = OnError("render_scene")
             /\ failures' = failures \cup {"render_scene"}
             /\ UNCHANGED <<media, scenes, line_no>>
    /\ UNCHANGED <<raw_script, script_lines, avatar, music_enabled, disk, rerun,
                   audio_asset, video_asset, selected_music>>
    /\ UNCHANGED <<pexelsVars, concatLocalVars, otherVars>>

\* Lines 140-147: after the last line, the outro when its source clip exists.
ExecOutro ==
    /\ pc = "line"
    /\ line_no = Len(script_lines)
    /\ IF OutroSource \in disk
       THEN IF NeedsOutroRender(media)
            THEN \E ok \in BOOLEAN :
                 /\ calls' = Append(calls, Call("render_logo_outro", -1,
                                                [output |-> OutroNormalized]))
                 /\ IF ok
                    THEN /\ media' = (OutroNormalized :> OutroDuration) @@ media
                         /\ scenes' = Append(scenes, OutroNormalized)
                         /\ pc' = "music"
                         /\ failures' = failures
                    ELSE /\ pc' = OnError("render_logo_outro")
                         /\ failures' = failures \cup {"render_logo_outro"}
                         /\ UNCHANGED <<media, scenes>>
            ELSE /\ scenes' = Append(scenes, OutroNormalized)
                 /\ pc' = "music"
                 /\ UNCHANGED <<calls, media, failures>>
       ELSE /\ pc' = "music"
            /\ UNCHANGED <<calls, media, failures, scenes>>
    /\ UNCHANGED <<raw_script, script_lines, avatar, music_enabled, disk, rerun,
                   line_no, audio_asset, video_asset, selected_music>>
    /\ UNCHANGED <<pexelsVars, concatLocalVars, otherVars>>

\* Lines 150-165: the music track; any exception here is printed and dropped.
\* A probe of the estimate that prints nothing counts as "0".
ExecMusic ==
    /\ pc = "music"
    /\ IF music_enabled
       THEN \E probed \in BOOLEAN, found \in BOOLEAN :
            /\ calls' = Append(calls, Call("get_music_track", -1,
                          [duration |-> EstimateTotal(scenes, media, probed)]))
            /\ selected_music' = IF found THEN "present" ELSE "none"
            /\ failures' = failures
                             \cup (IF probed THEN {} ELSE {"estimate_probe"})
                             \cup (IF found THEN {} ELSE {"music_select"})
       ELSE UNCHANGED <<calls, selected_music, failures>>
    /\ pc' = "concat"
    /\ UNCHANGED <<raw_script, script_lines, avatar, music_enabled, disk, rerun,
                   line_no, scenes, audio_asset, video_asset, media>>
    /\ UNCHANGED <<pexelsVars, concatLocalVars, otherVars>>

\* The concat_scenes call of line 170, with its arguments.
ConcatCall ==
    Call("concat_scenes", -1, [scene_files |-> scenes,
                               transition_duration |-> DriverTransition,
                               music_path |-> selected_music])

\* Lines 168-170 seen from execute: the call returns or raises.
ExecConcat ==
    /\ pc = "concat"
    /\ scenes # <<>>
    /\ calls' = Append(calls, ConcatCall)
    /\ \E ok \in BOOLEAN :
        IF ok
        THEN pc' = "done" /\ failures' = failures
        ELSE pc' = OnError("concat_scenes")
             /\ failures' = failures \cup {"concat_scenes"}
    /\ UNCHANGED <<raw_script, script_lines, avatar, music_enabled, disk, rerun,
                   line_no, scenes, audio_asset, video_asset, selected_music,
                   media>>
    /\ UNCHANGED <<pexelsVars, concatLocalVars, otherVars>>

ExecNext ==
    \/ ExecLoad
    \/ ExecIntro
    \/ ExecTitle
    \/ ExecAvatar
    \/ ExecTTS
    \/ ExecMedia
    \/ ExecRender
    \/ ExecOutro
    \/ ExecMusic
    \/ ExecConcat

\* The lines of a script that take the broll route, by index.
BrollLines(script, has_avatar) ==
    {k \in 0..(Len(script) - 1) :
        Route(ParseItem(script[k + 1]), has_avatar) = "broll"}

\* The files, other than fragments, that a completed run leaves behind.
PreviousFiles(script, has_avatar) ==
    {AudioPath(k) : k \in BrollLines(script, has_avatar)}
    \cup {VideoRawPath(k) : k \in {j \in BrollLines(script, has_avatar) :
              Get(script[j + 1], "custom_media_path", "") # OwnMedia}}

\* The fragments a completed run leaves behind.
PreviousFragments(script, has_outro) ==
    [p \in {IntroOutput} \cup {ScenePath(k) : k \in 0..(Len(script) - 1)}
           \cup (IF has_outro THEN {OutroNormalized} ELSE {})
       |-> IF p = OutroNormalized THEN OutroDuration ELSE IntroDuration]

\* The locals of execute before its first step.
ExecLocals ==
    /\ script_lines = <<>>
    /\ pc = "load"
    /\ line_no = 0
    /\ scenes = <<>>
    /\ audio_asset = [file_path |-> "", duration |-> 0]
    /\ video_asset = [file_path |-> ""]
    /\ selected_music = "none"
    /\ calls = <<>>
    /\ failures = {}

\* execute called on a fresh project, or on one a previous run completed in.
ExecInit ==
    /\ raw_script \in Scripts
    /\ avatar \in BOOLEAN
    /\ music_enabled \in BOOLEAN
    /\ rerun \in BOOLEAN
    /\ \E has_outro \in BOOLEAN :
        /\ disk = {OwnMedia}
                    \cup (IF has_outro THEN {OutroSource} ELSE {})
                    \cup (IF rerun THEN PreviousFiles(raw_script, avatar) ELSE {})
        /\ media = IF rerun THEN PreviousFragments(raw_script, has_outro)
                   ELSE <<>>
    /\ ExecLocals
    /\ scene_files = <<>>
    /\ output_file = <<>>
    /\ transition_duration = 0
    /\ music_path = "none"
    /\ cs_pc = "idle"
    /\ ConcatLocals
    /\ PexelsIdle
    /\ OtherIdle

SpecExec == ExecInit /\ [][ExecNext]_vars

(* ------------------ execute with concat_scenes entered ------------------ *)

\* Scripts of the three routes.
SystemItems == {TitleItem, AvatarItem, BrollItem}

SystemScripts == UNION {[1..n -> SystemItems] : n \in 0..MaxLines}

\* Line 170: concat_scenes is entered with the collected fragments.
SysEnterConcat ==
    /\ pc = "concat"
    /\ scenes # <<>>
    /\ calls' = Append(calls, ConcatCall)
    /\ scene_files' = scenes
    /\ output_file' = FinalVideoPath
    /\ transition_duration' = DriverTransition
    /\ music_path' = selected_music
    /\ cs_pc' = "start"
    /\ pc' = "in_concat"
    /\ UNCHANGED <<raw_script, script_lines, avatar, music_enabled, disk, rerun,
                   line_no, scenes, audio_asset, video_asset, selected_music,
                   failures, media>>
    /\ UNCHANGED <<durations, vf_parts, af_parts, simple_music, music_caller,
                   mix_in, video_duration, mix, fs_output, fs_temp, fs_list,
                   cmd_log>>
    /\ UNCHANGED <<pexelsVars, otherVars>>

\* concat_scenes returns to execute, or its exception leaves execute.
SysLeaveConcat ==
    /\ pc = "in_concat"
    /\ cs_pc \in {"done", "raised"}
    /\ IF cs_pc = "done"
       THEN pc' = "done" /\ failures' = failures
       ELSE pc' = OnError("concat_scenes")
            /\ failures' = failures \cup {"concat_scenes"}
    /\ UNCHANGED <<raw_script, script_lines, avatar, music_enabled, disk, rerun,
                   line_no, scenes, audio_asset, video_asset, selected_music,
                   calls, media>>
    /\ UNCHANGED <<pexelsVars, concatLocalVars, otherVars>>

SysNext ==
    \/ ExecLoad
    \/ ExecIntro
    \/ ExecTitle
    \/ ExecAvatar
    \/ ExecTTS
    \/ ExecMedia
    \/ ExecRender
    \/ ExecOutro
    \/ ExecMusic
    \/ SysEnterConcat
    \/ ConcatNext
    \/ SysLeaveConcat

\* execute called on a fresh project.
SysInit ==
    /\ raw_script \in SystemScripts
    /\ avatar \in BOOLEAN
    /\ music_enabled \in BOOLEAN
    /\ rerun = FALSE
    /\ \E has_outro \in BOOLEAN :
        disk = {OwnMedia} \cup (IF has_outro THEN {OutroSource} ELSE {})
    /\ media = <<>>
    /\ ExecLocals
    /\ scene_files = <<>>
    /\ output_file = <<>>
    /\ transition_duration = 0
    /\ music_path = "none"
    /\ cs_pc = "idle"
    /\ ConcatLocals
    /\ PexelsIdle
    /\ OtherIdle

SpecSystem == SysInit /\ [][SysNext]_vars

(* ============================ the renders =============================== *)

\* The temporary text files of the renders, by the prefix of their name.
HwText == "hw_text"

TitleText == "title_text"

IntroText == "intro_text"

\* One call of a render: which one, its input clip, its speech file, whether
\* the logo file exists, the emphasis word of the scene.
RenderArgs(kind, video, audio, logo, word) ==
    [kind |-> kind, video |-> video, audio |-> audio, logo |-> logo,
     highlight_word |-> word]

RenderCalls ==
    {RenderArgs("render_scene", v, a, FALSE, w) :
        v \in SceneVideos, a \in SceneAudios, w \in {"", "ocean"}}
    \cup {RenderArgs("render_title_card", NoMedia, NoMedia, FALSE, "")}
    \cup {RenderArgs("render_branded_intro", NoMedia, NoMedia, l, "") :
            l \in BOOLEAN}
    \cup {RenderArgs("render_logo_outro", v, NoMedia, FALSE, "") :
            v \in OutroSources}
    \cup {RenderArgs("_normalize_video", v, NoMedia, FALSE, "") :
            v \in AvatarDownloads}

\* render_scene up to the command: the emphasis word is written to a file.
RenderScenePrepare ==
    /\ rd_pc = "call"
    /\ rd_args.kind = "render_scene"
    /\ rd_text_files' = IF rd_args.highlight_word # ""
                        THEN rd_text_files \cup {HwText} ELSE rd_text_files
    /\ rd_pc' = "run"
    /\ UNCHANGED <<rd_args, rd_out>>
    /\ UNCHANGED notRenderVars

\* render_scene: the command; a failure is printed and raised again.
RenderSceneRun ==
    /\ rd_pc = "run"
    /\ rd_args.kind = "render_scene"
    /\ \E ok \in BOOLEAN :
        IF ok
        THEN rd_out' = SceneFragment(rd_args.video, rd_args.audio)
             /\ rd_pc' = "returned"
        ELSE rd_out' = NoMedia /\ rd_pc' = "raised"
    /\ UNCHANGED <<rd_args, rd_text_files>>
    /\ UNCHANGED notRenderVars

\* render_title_card up to the command: the title is written to a file.
RenderTitleCardPrepare ==
    /\ rd_pc = "call"
    /\ rd_args.kind = "render_title_card"
    /\ rd_text_files' = rd_text_files \cup {TitleText}
    /\ rd_pc' = "run"
    /\ UNCHANGED <<rd_args, rd_out>>
    /\ UNCHANGED notRenderVars

\* render_title_card: the command; the text file is removed either way.
RenderTitleCardRun ==
    /\ rd_pc = "run"
    /\ rd_args.kind = "render_title_card"
    /\ \E ok \in BOOLEAN :
        IF ok
        THEN rd_out' = TitleFragment /\ rd_pc' = "returned"
        ELSE rd_out' = NoMedia /\ rd_pc' = "raised"
    /\ rd_text_files' = rd_text_files \ {TitleText}
    /\ UNCHANGED rd_args
    /\ UNCHANGED notRenderVars

\* render_branded_intro up to the command: without a logo file the brand
\* name is written to a text file.
RenderBrandedIntroPrepare ==
    /\ rd_pc = "call"
    /\ rd_args.kind = "render_branded_intro"
    /\ rd_text_files' = IF rd_args.logo THEN rd_text_files
                        ELSE rd_text_files \cup {IntroText}
    /\ rd_pc' = "run"
    /\ UNCHANGED <<rd_args, rd_out>>
    /\ UNCHANGED notRenderVars

\* render_branded_intro: the command; the finally block removes the text
\* file when the logo file does not exist.
RenderBrandedIntroRun ==
    /\ rd_pc = "run"
    /\ rd_args.kind = "render_branded_intro"
    /\ \E ok \in BOOLEAN :
        IF ok
        THEN rd_out' = IntroFragment(rd_args.logo) /\ rd_pc' = "returned"
        ELSE rd_out' = NoMedia /\ rd_pc' = "raised"
    /\ rd_text_files' = IF rd_args.logo THEN rd_text_files
                        ELSE rd_text_files \ {IntroText}
    /\ UNCHANGED rd_args
    /\ UNCHANGED notRenderVars

\* render_logo_outro: the command.
RenderLogoOutroRun ==
    /\ rd_pc = "call"
    /\ rd_args.kind = "render_logo_outro"
    /\ \E ok \in BOOLEAN :
        IF ok
        THEN rd_out' = OutroFragment(rd_args.video) /\ rd_pc' = "returned"
        ELSE rd_out' = NoMedia /\ rd_pc' = "raised"
    /\ UNCHANGED <<rd_args, rd_text_files>>
    /\ UNCHANGED notRenderVars

\* HeyGenAdapter._normalize_video: the command.
NormalizeVideoRun ==
    /\ rd_pc = "call"
    /\ rd_args.kind = "_normalize_video"
    /\ \E ok \in BOOLEAN :
        IF ok
        THEN rd_out' = AvatarFragment(rd_args.video) /\ rd_pc' = "returned"
        ELSE rd_out' = NoMedia /\ rd_pc' = "raised"
    /\ UNCHANGED <<rd_args, rd_text_files>>
    /\ UNCHANGED notRenderVars

\* The next render is called.
RenderCall ==
    /\ rd_pc \in {"returned", "raised"}
    /\ rd_args' \in RenderCalls
    /\ rd_pc' = "call"
    /\ rd_out' = NoMedia
    /\ UNCHANGED rd_text_files
    /\ UNCHANGED notRenderVars

RenderNext ==
    \/ RenderScenePrepare
    \/ RenderSceneRun
    \/ RenderTitleCardPrepare
    \/ RenderTitleCardRun
    \/ RenderBrandedIntroPrepare
    \/ RenderBrandedIntroRun
    \/ RenderLogoOutroRun
    \/ NormalizeVideoRun
    \/ RenderCall

\* The first render is called in an assets directory without text files.
RenderInit ==
    /\ rd_args \in RenderCalls
    /\ rd_pc = "call"
    /\ rd_out = NoMedia
    /\ rd_text_files = {}
    /\ ConcatIdle
    /\ PexelsIdle
    /\ ExecIdle
    /\ HeyGenIdle
    /\ StartIdle
    /\ MusicIdle

SpecRender == RenderInit /\ [][RenderNext]_vars

(* ================= HeyGenAdapter.generate_avatar_video ================== *)

\* _poll_video_status defaults, in seconds.
MaxWaitSeconds == 600

PollInterval == 5

\* Output paths, as their parts: the driver's scene_0.mp4, a path with a
\* directory that carries the extension too, a path without the extension.
AvatarOutputPaths ==
    {<<"scene_0", ".mp4">>, <<"clips", ".mp4", "/scene_0", ".mp4">>,
     <<"scene_0", ".mov">>}

\* `str(output_path).replace(".mp4", "_raw.mp4")`
DownloadPath(output_path) ==
    [i \in DOMAIN output_path |->
        IF output_path[i] = ".mp4" THEN "_raw.mp4" ELSE output_path[i]]

\* A clean-up that leaves the raw download.
CleanedUpNothing(files, download_path) == files

\* `if download_path.exists(): download_path.unlink()`
CleanedUp(files, download_path) == files \ {download_path}

\* ffmpeg refuses an output that is its own input.
CanNormalize(input_path, output_path) == input_path # output_path

\* What one status request can bring back.
StatusAnswers ==
    {"http_error", "no_data", "completed", "completed_no_url", "failed",
     "pending", "processing", "unknown"}

\* A status test that also waits on a status it does not know.
StillGeneratingOrUnknown(answer) == answer \in {"pending", "processing", "unknown"}

\* `elif status in ["pending", "processing"]`
StillGenerating(answer) == answer \in {"pending", "processing"}

\* A loop test that lets one more request through.
LoopGuardInclusive(elapsed) == elapsed <= MaxWaitSeconds

\* `while elapsed < max_wait_seconds`
LoopGuard(elapsed) == elapsed < MaxWaitSeconds

\* generate_avatar_video raises.
HgRaise(error) ==
    /\ hg_pc' = "raised"
    /\ hg_error' = error

\* _create_video: the job is submitted.
HgCreateVideo ==
    /\ hg_pc = "create"
    /\ \E answer \in {"ok", "http_error", "no_video_id"} :
        IF answer = "ok"
        THEN hg_pc' = "poll" /\ hg_error' = hg_error
        ELSE HgRaise(answer)
    /\ UNCHANGED <<hg_elapsed, hg_requests, hg_status, hg_output_path, hg_files>>
    /\ UNCHANGED notHeygenVars

\* _poll_video_status: one turn of the loop, a status request and its answer.
HgPollVideoStatus ==
    /\ hg_pc = "poll"
    /\ LoopGuard(hg_elapsed)
    /\ hg_requests' = hg_requests + 1
    /\ \E answer \in StatusAnswers :
        /\ hg_status' = answer
        /\ CASE answer = "completed" ->
                /\ hg_pc' = "download"
                /\ UNCHANGED <<hg_elapsed, hg_error>>
          [] StillGenerating(answer) ->
                /\ hg_elapsed' = hg_elapsed + PollInterval
                /\ UNCHANGED <<hg_pc, hg_error>>
          [] OTHER ->
                /\ HgRaise(answer)
                /\ UNCHANGED hg_elapsed
    /\ UNCHANGED <<hg_output_path, hg_files>>
    /\ UNCHANGED notHeygenVars

\* _poll_video_status: the loop is left without an answer.
HgPollTimeout ==
    /\ hg_pc = "poll"
    /\ ~LoopGuard(hg_elapsed)
    /\ HgRaise("timeout")
    /\ UNCHANGED <<hg_elapsed, hg_requests, hg_status, hg_output_path, hg_files>>
    /\ UNCHANGED notHeygenVars

\* _download_video: the clip is fetched into <output>_raw.mp4.
HgDownloadVideo ==
    /\ hg_pc = "download"
    /\ \E ok \in BOOLEAN :
        IF ok
        THEN /\ hg_files' = hg_files \cup {DownloadPath(hg_output_path)}
             /\ hg_pc' = "normalize"
             /\ hg_error' = hg_error
        ELSE /\ HgRaise("download_failed")
             /\ hg_files' = hg_files
    /\ UNCHANGED <<hg_elapsed, hg_requests, hg_status, hg_output_path>>
    /\ UNCHANGED notHeygenVars

\* _normalize_video: ffmpeg writes <output>.mp4 or the call raises.
HgNormalizeVideo ==
    /\ hg_pc = "normalize"
    /\ \E ok \in (IF CanNormalize(DownloadPath(hg_output_path), hg_output_path)
                 THEN BOOLEAN ELSE {FALSE}) :
        IF ok
        THEN /\ hg_files' = hg_files \cup {hg_output_path}
             /\ hg_pc' = "cleanup"
             /\ hg_error' = hg_error
        ELSE /\ HgRaise("normalize_failed")
             /\ hg_files' = hg_files
    /\ UNCHANGED <<hg_elapsed, hg_requests, hg_status, hg_output_path>>
    /\ UNCHANGED notHeygenVars

\* Lines 88-91: the raw download is removed and the output path returned.
HgCleanup ==
    /\ hg_pc = "cleanup"
    /\ hg_files' = CleanedUp(hg_files, DownloadPath(hg_output_path))
    /\ hg_pc' = "returned"
    /\ UNCHANGED <<hg_elapsed, hg_requests, hg_status, hg_output_path, hg_error>>
    /\ UNCHANGED notHeygenVars

HeyGenNext ==
    \/ HgCreateVideo
    \/ HgPollVideoStatus
    \/ HgPollTimeout
    \/ HgDownloadVideo
    \/ HgNormalizeVideo
    \/ HgCleanup

\* generate_avatar_video is called; nothing of it is on disk.
HeyGenInit ==
    /\ hg_pc = "create"
    /\ hg_output_path \in AvatarOutputPaths
    /\ hg_elapsed = 0
    /\ hg_requests = 0
    /\ hg_status = "none"
    /\ hg_files = {}
    /\ hg_error = "none"
    /\ ConcatIdle
    /\ PexelsIdle
    /\ ExecIdle
    /\ RenderIdle
    /\ StartIdle
    /\ MusicIdle

\* The event loop runs the coroutine: every request is answered and every
\* sleep ends.
SpecHeyGen == HeyGenInit /\ [][HeyGenNext]_vars /\ WF_vars(HeyGenNext)

(* ========================= the start of a run ========================== *)

\* The environment variables the program reads its credentials from.
Credentials == {"PEXELS_API_KEY", "HEYGEN_API_KEY"}

\* A configuration check that accepts a missing key.
HasPexelsKeyAlways(e) == TRUE

\* config.py line 11: `if not api_key` does not hold.
HasPexelsKey(e) == "PEXELS_API_KEY" \in e

\* heygen_adapter.py line 33: `if not api_key` does not hold;
\* config.heygen_api_key is "" when the variable is not set.
HasHeyGenKey(e) == "HEYGEN_API_KEY" \in e

\* The startup raises or returns with an error.
StartFail(how) ==
    /\ st_pc' = how
    /\ UNCHANGED <<env, script_file, use_avatar>>
    /\ UNCHANGED <<concatVars, pexelsVars, execVars, renderVars, heygenVars, musicVars>>

\* load_config: the media key is read, the project directories are made.
StartLoadConfig ==
    /\ st_pc = "config"
    /\ IF HasPexelsKey(env)
       THEN /\ st_pc' = "adapters"
            /\ UNCHANGED <<env, script_file, use_avatar>>
            /\ UNCHANGED <<concatVars, pexelsVars, execVars, renderVars,
                           heygenVars, musicVars>>
       ELSE StartFail("raised")

\* The adapters and the use case are constructed; HeyGenAdapter.__init__
\* raises on an empty key.
StartAdapters ==
    /\ st_pc = "adapters"
    /\ IF use_avatar /\ ~HasHeyGenKey(env)
       THEN StartFail("raised")
       ELSE /\ st_pc' = "script"
            /\ avatar' = use_avatar
            /\ UNCHANGED <<env, script_file, use_avatar>>
            /\ UNCHANGED <<raw_script, script_lines, music_enabled, disk, rerun,
                           pc, line_no, scenes, audio_asset, video_asset,
                           selected_music, calls, failures>>
            /\ UNCHANGED <<concatVars, pexelsVars, renderVars, heygenVars, musicVars>>

\* The entry point: with or without a test that the script exists, execute
\* is called.
StartExecute ==
    /\ st_pc = "script"
    /\ \E tests_script \in BOOLEAN :
        IF tests_script /\ ~script_file
        THEN StartFail("returned")
        ELSE /\ st_pc' = "execute"
             /\ pc' = "load"
             /\ UNCHANGED <<env, script_file, use_avatar>>
             /\ UNCHANGED <<raw_script, script_lines, avatar, music_enabled,
                            disk, rerun, line_no, scenes, audio_asset,
                            video_asset, selected_music, calls, failures>>
             /\ UNCHANGED <<concatVars, pexelsVars, renderVars, heygenVars, musicVars>>

StartNext ==
    \/ StartLoadConfig
    \/ StartAdapters
    \/ StartExecute
    \/ ExecLoad
    \/ ExecIntro
    \/ ExecTitle
    \/ ExecAvatar
    \/ ExecTTS
    \/ ExecMedia
    \/ ExecRender
    \/ ExecOutro
    \/ ExecMusic
    \/ ExecConcat

\* The program is started on a fresh project: any of the credentials may be
\* missing, and so may the script file.
StartInit ==
    /\ env \in SUBSET Credentials
    /\ script_file \in BOOLEAN
    /\ use_avatar \in BOOLEAN
    /\ st_pc = "config"
    /\ raw_script \in (IF script_file THEN SystemScripts ELSE {<<>>})
    /\ avatar = FALSE
    /\ music_enabled \in BOOLEAN
    /\ rerun = FALSE
    /\ \E has_outro \in BOOLEAN :
        disk = {OwnMedia} \cup (IF has_outro THEN {OutroSource} ELSE {})
    /\ media = <<>>
    /\ script_lines = <<>>
    /\ pc = "idle"
    /\ line_no = 0
    /\ scenes = <<>>
    /\ audio_asset = [file_path |-> "", duration |-> 0]
    /\ video_asset = [file_path |-> ""]
    /\ selected_music = "none"
    /\ calls = <<>>
    /\ failures = {}
    /\ scene_files = <<>>
    /\ output_file = <<>>
    /\ transition_duration = 0
    /\ music_path = "none"
    /\ cs_pc = "idle"
    /\ ConcatLocals
    /\ PexelsIdle
    /\ RenderIdle
    /\ HeyGenIdle
    /\ MusicIdle

SpecStartup == StartInit /\ [][StartNext]_vars

(* ------------------------------ MusicAdapter --------------------------- *)

\* What a path of the disk can be.
PathKinds == {"missing", "file", "dir"}

\* The names inside the music directory, each as its parts: a mood, a hidden
\* name and a name with an extension.
ChildNames == {<<"ambient">>, <<".", "hidden">>, <<"notes", ".txt">>}

\* The names given as mood: the ones of the music directory.
Moods == ChildNames

\* The values given as min_duration, in seconds.
MinDurations == {0, 600}

\* The entries a mood directory can hold: a name as <<stem, extension>> and
\* what the entry is.
DirEntries ==
    { [name |-> <<"track", ".mp3">>, kind |-> "file"],
      [name |-> <<"LOUD", ".WAV">>, kind |-> "file"],
      [name |-> <<"readme", ".txt">>, kind |-> "file"],
      [name |-> <<"", ".ogg">>, kind |-> "file"],
      [name |-> <<"stems", ".ogg">>, kind |-> "dir"] }

\* Path.suffix: the part from the last dot of the name on, and nothing for
\* a name that only starts with a dot.
Suffix(name) == IF name[1] = "" THEN "" ELSE name[2]

\* str.lower over the extensions of DirEntries.
Lower(s) ==
    CASE s = ".WAV" -> ".wav"
      [] s = ".MP3" -> ".mp3"
      [] OTHER -> s

audio_extensions == {".mp3", ".wav", ".m4a", ".aac", ".ogg"}

\* Path.exists.
Exists(kind) == kind # "missing"

\* The condition of both list comprehensions, with the case kept as it is.
IsTrackCaseSensitive(f) ==
    f.kind = "file" /\ Suffix(f.name) \in audio_extensions

\* The condition of both list comprehensions over mood_dir.iterdir().
IsTrack(f) ==
    f.kind = "file" /\ Lower(Suffix(f.name)) \in audio_extensions

\* str.startswith('.') that finds no dot.
StartsWithDotNever(name) == FALSE

\* str.startswith('.') on a name of the music directory.
StartsWithDot(name) == name[1] = "."

\* What is at music_dir / mood.
MoodDir(mood) == IF mu_root = "dir" THEN mu_children[mood] ELSE "missing"

FileNotFoundError == [kind |-> "FileNotFoundError"]

\* What iterdir raises on a path that is not a directory.
NotADirectoryError == [kind |-> "NotADirectoryError"]

\* The tracks list of get_music_track and get_tracks_for_mood.
Tracks(mood) == {f \in mu_contents : IsTrack(f)}

\* What one call of get_music_track can give; iterdir gives the entries in
\* any order, so tracks[0] is any of the tracks.
GetMusicTrackOutcomes(mood, min_duration) ==
    IF ~Exists(MoodDir(mood)) THEN {FileNotFoundError}
    ELSE IF MoodDir(mood) # "dir" THEN {NotADirectoryError}
    ELSE IF Tracks(mood) = {} THEN {FileNotFoundError}
    ELSE {[kind |-> "path", mood |-> mood, name |-> f.name] :
              f \in Tracks(mood)}

\* What one call of get_tracks_for_mood gives; the list is kept as the set
\* of its members.
GetTracksForMoodOutcome(mood) ==
    IF ~Exists(MoodDir(mood)) THEN [kind |-> "list", value |-> {}]
    ELSE IF MoodDir(mood) # "dir" THEN NotADirectoryError
    ELSE [kind |-> "list",
          value |-> {[mood |-> mood, name |-> f.name] : f \in Tracks(mood)}]

\* What one call of list_available_moods gives; the music directory is
\* missing or a directory.
ListAvailableMoodsOutcome ==
    IF ~Exists(mu_root) THEN [kind |-> "list", value |-> {}]
    ELSE [kind |-> "list",
          value |-> {d \in ChildNames :
                        mu_children[d] = "dir" /\ ~StartsWithDot(d)}]

\* MusicAdapter(music_dir): __init__ with _ensure_directory_exists.
MusicConstruct ==
    /\ mu_pc = "new"
    /\ mu_root' = (IF ~Exists(mu_root) THEN "dir" ELSE mu_root)
    /\ mu_pc' = "ready"
    /\ UNCHANGED <<mu_children, mu_contents, mu_op, mu_result>>
    /\ UNCHANGED notMusicVars

GetMusicTrack ==
    /\ mu_pc = "ready"
    /\ \E mood \in Moods, min_duration \in MinDurations :
          /\ mu_op' = [op |-> "get_music_track", mood |-> mood,
                       min_duration |-> min_duration]
          /\ mu_result' \in GetMusicTrackOutcomes(mood, min_duration)
    /\ UNCHANGED <<mu_root, mu_children, mu_contents, mu_pc>>
    /\ UNCHANGED notMusicVars

GetTracksForMood ==
    /\ mu_pc = "ready"
    /\ \E mood \in Moods :
          /\ mu_op' = [op |-> "get_tracks_for_mood", mood |-> mood]
          /\ mu_result' = GetTracksForMoodOutcome(mood)
    /\ UNCHANGED <<mu_root, mu_children, mu_contents, mu_pc>>
    /\ UNCHANGED notMusicVars

ListAvailableMoods ==
    /\ mu_pc = "ready"
    /\ mu_op' = [op |-> "list_available_moods"]
    /\ mu_result' = ListAvailableMoodsOutcome
    /\ UNCHANGED <<mu_root, mu_children, mu_contents, mu_pc>>
    /\ UNCHANGED notMusicVars

\* The music directory is removed under the adapter, as the tests do with
\* shutil.rmtree; the last result is forgotten with it.
MusicDirRemoved ==
    /\ mu_pc = "ready"
    /\ mu_root = "dir"
    /\ mu_root' = "missing"
    /\ mu_children' = [name \in ChildNames |-> "missing"]
    /\ mu_contents' = {}
    /\ mu_op' = [op |-> "none"]
    /\ mu_result' = [kind |-> "none"]
    /\ UNCHANGED mu_pc
    /\ UNCHANGED notMusicVars

MusicNext ==
    \/ MusicConstruct
    \/ GetMusicTrack
    \/ GetTracksForMood
    \/ ListAvailableMoods
    \/ MusicDirRemoved

\* A MusicAdapter about to be constructed on a music directory that is
\* missing or holds any of the names; the directories inside hold the same
\* entries.
MusicInit ==
    /\ mu_root \in {"missing", "dir"}
    /\ mu_children \in [ChildNames -> PathKinds]
    /\ mu_contents \in SUBSET DirEntries
    /\ ~Exists(mu_root) => \A name \in ChildNames : mu_children[name] = "missing"
    /\ (\A name \in ChildNames : mu_children[name] # "dir") => mu_contents = {}
    /\ mu_pc = "new"
    /\ mu_op = [op |-> "none"]
    /\ mu_result = [kind |-> "none"]
    /\ ConcatIdle
    /\ PexelsIdle
    /\ ExecIdle
    /\ RenderIdle
    /\ HeyGenIdle
    /\ StartIdle

SpecMusic == MusicInit /\ [][MusicNext]_vars

(* ============================== claims ================================== *)

\* The fragments' durations on disk, in list order.
TrueDurations == [i \in DOMAIN scene_files |-> media[scene_files[i]]]

NumScenes == Len(scene_files)

Returned == cs_pc = "done"

Terminated == cs_pc \in {"done", "raised"}

\* The last command of the log with this name succeeded.
LastOk(c) ==
    LET idx == {i \in DOMAIN cmd_log : cmd_log[i].cmd = c}
    IN  idx # {} /\ cmd_log[CHOOSE i \in idx : \A j \in idx : j <= i].ok

\* C1: for N >= 2 fragments, a cross-faded output lasts the sum of the
\* fragment durations minus (N-1) transitions, and a hard-cut output lasts
\* exactly the sum (3.0+3.0 at 0.4 is 5.6; 4.0+3.0+5.0 at 0.4 is 11.2).
C1_AssembledDuration ==
    (Returned /\ NumScenes >= 2) =>
        /\ fs_output.exists
        /\ fs_output.cuts \in {"xfade", "hard"}
        /\ fs_output.cuts = "xfade" =>
             Duration(fs_output) =
                Sum(TrueDurations) - (NumScenes - 1) * transition_duration
        /\ fs_output.cuts = "hard" => Duration(fs_output) = Sum(TrueDurations)

C1_Witness ==
    /\ Returned
    /\ TrueDurations = <<40, 30, 50>>
    /\ transition_duration = 4
    /\ fs_output.cuts = "xfade"
    /\ Duration(fs_output) = 112

\* The running composite after k cross-fade steps, as ffmpeg plays the chain.
CompositeLength(k) == XfadeVideoLength(scene_files, SubSeq(vf_parts, 1, k))

\* C2: the cross-fade path builds exactly N-1 steps; step k starts at the
\* cumulative duration of fragments 1..k minus k transitions, which is the
\* length of the running composite minus t; the audio cross-fade of the step
\* lasts t as well.
C2_XfadeSteps ==
    (cs_pc = "xfade" \/ CountCmd("xfade") >= 1) =>
        /\ Len(vf_parts) = NumScenes - 1
        /\ Len(af_parts) = NumScenes - 1
        /\ \A k \in 1..(NumScenes - 1) :
            /\ vf_parts[k].offset =
                  Sum(SubSeq(TrueDurations, 1, k)) - k * transition_duration
            /\ vf_parts[k].offset = CompositeLength(k - 1) - transition_duration
            /\ vf_parts[k].duration = transition_duration
            /\ af_parts[k].d = transition_duration

C2_Witness ==
    /\ Succeeded("xfade")
    /\ NumScenes = 3
    /\ vf_parts[1].offset # vf_parts[2].offset

\* C3: for N >= 2 a cross-fade command is issued exactly when every duration
\* probe succeeded and the shortest fragment lasts at least two transitions;
\* a shorter fragment sends the call to the hard-cut concatenation with no
\* cross-fade command at all.
C3_XfadeIffFeasible ==
    NumScenes >= 2 =>
        /\ CountCmd("xfade") >= 1 =>
              /\ ~Failed("ffprobe")
              /\ MinOf(TrueDurations) >= 2 * transition_duration
        /\ Terminated =>
              /\ (~Failed("ffprobe") /\ MinOf(TrueDurations) >= 2 * transition_duration)
                    => CountCmd("xfade") = 1
              /\ MinOf(TrueDurations) < 2 * transition_duration
                    => CountCmd("xfade") = 0 /\ CountCmd("concat") = 1

C3_Witness ==
    /\ Terminated
    /\ NumScenes >= 2
    /\ MinOf(TrueDurations) = 2 * transition_duration
    /\ CountCmd("xfade") = 1

\* C4: a single fragment sees no duration probe, no cross-fade and no
\* play-list; with a music file at hand it is mixed once, otherwise it is
\* re-encoded once, and the output lasts as long as the fragment.
C4_SingleFragment ==
    NumScenes = 1 =>
        /\ CountCmd("ffprobe") = 0
        /\ CountCmd("xfade") = 0
        /\ CountCmd("concat") = 0
        /\ ~fs_list.exists
        /\ vf_parts = <<>> /\ af_parts = <<>> /\ durations = <<>>
        /\ Returned =>
            /\ fs_output.exists
            /\ Duration(fs_output) = media[scene_files[1]]
            /\ IF MusicAvailable(music_path)
               THEN /\ CountCmd("mix") = 1
                    /\ CountCmd("single_copy") = 0
                    /\ fs_output.music = 1
               ELSE /\ CountCmd("single_copy") = 1
                    /\ CountCmd("mix") = 0
                    /\ fs_output.music = 0

C4_Witness ==
    /\ NumScenes = 1
    /\ Returned
    /\ MusicAvailable(music_path)
    /\ fs_output.music = 1

\* The failed command that ended the call.
LastCmd == cmd_log[Len(cmd_log)]

\* C5: once the cross-fade command has failed the call goes on to the
\* hard-cut concatenation of the same ordered list; it raises only out of
\* that concatenation (its concat command, the rename before its music pass
\* or the music pass), never at the cross-fade.
C5_XfadeFailureFallsBack ==
    Failed("xfade") =>
        /\ cs_pc \in {"simple", "simple_run", "music_probe", "music_mix",
                      "done", "raised"}
        /\ cs_pc = "simple_run" => fs_list.exists /\ fs_list.lines = scene_files
        /\ Terminated =>
              /\ CountCmd("concat") = 1
              /\ \A i \in DOMAIN cmd_log :
                    cmd_log[i].cmd = "concat" => cmd_log[i].arg = scene_files
        /\ cs_pc = "raised" =>
              \/ LastCmd.cmd = "concat" /\ ~LastCmd.ok
              \/ /\ LastCmd.cmd = "concat"
                 /\ MusicAvailable(simple_music)
                 /\ FALSE \in RenameOutcomes(output_file)
              \/ LastCmd.cmd = "mix" /\ ~LastCmd.ok /\ music_caller = "simple"
        /\ Returned => fs_output.exists /\ fs_output.cuts = "hard"

C5_Witness ==
    /\ Failed("xfade")
    /\ Returned
    /\ fs_output.cuts = "hard"

\* C6: with a music path whose file exists, every successful return has the
\* music mixed into the output exactly once, on every path.
C6_MusicMixedOnce ==
    (Returned /\ MusicAvailable(music_path)) => fs_output.music = 1

\* C7 as stated: the mix never outlasts the video track, the looped music is
\* trimmed to the video's duration v, and the mix ends with the first input.
C7_MusicTrimmedToVideo ==
    mix.ran =>
        /\ Duration(fs_output) <= mix_in.v
        /\ mix.music_len = mix_in.v
        /\ mix.aout = mix.first

\* C7 amended: the mix never outlasts the video track and ends with the first
\* input; the looped music is trimmed to the probed duration of the video, or
\* to the 300 s default when that probe failed.
C7_MixNeverLonger ==
    mix.ran =>
        /\ Duration(fs_output) <= mix_in.v
        /\ mix.aout = mix.first
        /\ mix.music_len = mix.trim
        /\ mix.trim = IF LastOk("ffprobe_music")
                      THEN Duration(mix_in)
                      ELSE FallbackVideoDuration

C7_Witness ==
    /\ mix.ran
    /\ mix.music_file < mix_in.v
    /\ LastOk("ffprobe_music")
    /\ mix.music_len = mix_in.v

\* The calls of execute with this method name, as indices of the log.
CallsOf(op) == {i \in DOMAIN calls : calls[i].op = op}

\* The calls of execute with this method name made for line k.
CallsFor(op, k) == {i \in CallsOf(op) : calls[i].line = k}

\* execute is past its loop over the script lines.
PastLines == pc \in {"music", "concat", "in_concat", "done"}

\* Methods that reach an external API or the transcoder for a fragment.
WorkOps == {"generate_audio", "generate_avatar_video", "render_branded_intro",
            "render_title_card", "render_scene", "render_logo_outro"}

\* C8 as stated: on a project where the files of a previous run exist, a
\* run of execute makes no speech-synthesis, avatar or stock-footage request
\* and renders nothing again.
C8_RerunSkipsEverything ==
    rerun =>
        /\ \A op \in WorkOps : CallsOf(op) = {}
        /\ \A i \in CallsOf("search_video") : calls[i].arg.http = 0

\* C8 amended: such a run skips the intro render, the outro render and every
\* stock-footage request (the cached raw file is returned), and nothing
\* else: each title line is rendered again, each avatar line generated
\* again, each broll line synthesised and rendered again, and the fragments
\* are assembled again.
C8_RerunSkipsCachedOnly ==
    rerun =>
        /\ CallsOf("render_branded_intro") = {}
        /\ CallsOf("render_logo_outro") = {}
        /\ \A i \in CallsOf("search_video") : calls[i].arg.http = 0
        /\ PastLines =>
             \A k \in 0..(Len(script_lines) - 1) :
                LET route == Route(script_lines[k + 1], avatar) IN
                /\ Cardinality(CallsFor("render_title_card", k))
                      = IF route = "title" THEN 1 ELSE 0
                /\ Cardinality(CallsFor("generate_avatar_video", k))
                      = IF route = "avatar" THEN 1 ELSE 0
                /\ Cardinality(CallsFor("generate_audio", k))
                      = IF route = "broll" THEN 1 ELSE 0
                /\ Cardinality(CallsFor("render_scene", k))
                      = IF route = "broll" THEN 1 ELSE 0
        /\ pc = "done" => Cardinality(CallsOf("concat_scenes")) = 1

C8_Witness ==
    /\ rerun
    /\ pc = "done"
    /\ OutroNormalized \in Range(scenes)
    /\ CallsOf("generate_audio") # {}
    /\ CallsOf("render_title_card") # {}
    /\ \E i \in CallsOf("search_video") : calls[i].arg.http = 0

\* C9: one search_video call sends at most two search requests, the one
\* for its query and one for the generic query.
C9_AtMostTwoRequests == Len(px_requests) <= 2

\* The place a failed command of concat_scenes stands for.
SiteOf(c) == IF c.cmd = "mix" THEN "mix_" \o c.arg[1] ELSE c.cmd

\* Every place where a call, probe or command has failed during the run.
AllFailures ==
    failures \cup {SiteOf(cmd_log[i]) : i \in {j \in DOMAIN cmd_log : ~cmd_log[j].ok}}

\* The failures that lead into the cross-fade-to-hard-cut downgrade.
XfadeSites == {"xfade", "mix_xfade"}

\* The failures the code replaces by a default value or another path.
AbsorbedSites ==
    XfadeSites \cup {"ffprobe", "ffprobe_music", "estimate_probe", "music_select",
                     "media_search", "tts_probe"}

\* C10 as stated: a run of execute that returns normally has seen no failure
\* other than the one absorbed by the cross-fade-to-hard-cut downgrade.
C10_OnlyXfadeAbsorbed == pc = "done" => AllFailures \subseteq XfadeSites

\* C10 amended: a run that returns normally has seen only failures of the
\* absorbed kinds (cross-fade block, fragment duration probe, music-pass
\* duration probe, estimate probe, music selection, first media search,
\* speech duration probe); a failure of any other kind leaves execute as an
\* error, and execute raises only after such a failure.
C10_AbsorbedFailures ==
    /\ pc = "done" => AllFailures \subseteq AbsorbedSites
    /\ pc = "raised" => ~(AllFailures \subseteq AbsorbedSites)
    /\ ~(AllFailures \subseteq AbsorbedSites) =>
          pc = "raised" \/ (pc = "in_concat" /\ cs_pc = "raised")

C10_Witness ==
    /\ pc = "done"
    /\ {"tts_probe", "media_search", "music_select"} \subseteq failures
    /\ Failed("ffprobe")
    /\ ~Failed("xfade")

\* The per-line calls that produce a fragment with the transcoder.
RenderSites == {"render_scene", "render_title_card", "generate_avatar_video"}

\* The script lines whose fragment is in the list, by index.
AppendedLines == {k \in 0..(Len(script_lines) - 1) : ScenePath(k) \in Range(scenes)}

\* C11: a failed per-line render (scene, title card, avatar) leaves execute
\* as an error; the failed line's fragment is not in the list and
\* concat_scenes is never called; a line's fragment is in the list only
\* when the render call for that line has returned.
C11_FailedRenderBlocks ==
    /\ failures \cap RenderSites # {} =>
          /\ pc = "raised"
          /\ CallsOf("concat_scenes") = {}
          /\ ScenePath(line_no) \notin Range(scenes)
    /\ \A k \in AppendedLines :
          /\ k < line_no
          /\ \E op \in RenderSites : CallsFor(op, k) # {}
    /\ pc \in {"line", "media", "render"} => AppendedLines = 0..(line_no - 1)

C11_Witness ==
    /\ pc = "raised"
    /\ "render_scene" \in failures
    /\ line_no = 1
    /\ scenes = <<IntroOutput, ScenePath(0)>>

\* The fragments of the first n script lines, in script order.
LineFragments(n) == [k \in 1..n |-> ScenePath(k - 1)]

\* The list handed to concat_scenes after n lines.
FullList(n, with_outro) ==
    <<IntroOutput>> \o LineFragments(n)
        \o (IF with_outro THEN <<OutroNormalized>> ELSE <<>>)

\* C12: lines are processed in script order, one at a time; concat_scenes
\* is called exactly once, after the last line, with the intro, then one
\* fragment per line in script order, then the outro when its source clip
\* exists; no path occurs twice.
C12_OrderedFragments ==
    /\ \A i, j \in DOMAIN scenes : i # j => scenes[i] # scenes[j]
    /\ \A i, j \in DOMAIN calls :
          (i < j /\ calls[i].line >= 0 /\ calls[j].line >= 0) =>
              calls[i].line <= calls[j].line
    /\ pc \in {"line", "media", "render"} => scenes = FullList(line_no, FALSE)
    /\ Cardinality(CallsOf("concat_scenes")) <= 1
    /\ \A i \in CallsOf("concat_scenes") :
          /\ i = Len(calls)
          /\ line_no = Len(script_lines)
          /\ calls[i].arg.scene_files
                = FullList(Len(script_lines), OutroSource \in disk)
    /\ pc = "done" => Cardinality(CallsOf("concat_scenes")) = 1

C12_Witness ==
    /\ pc = "done"
    /\ Len(script_lines) = 2
    /\ calls[Len(calls)].arg.scene_files
          = <<"intro_branded.mp4", "scene_0.mp4", "scene_1.mp4",
              "outro_normalized.mp4">>

\* The script lines that have been handled to the end, by index.
FinishedLines == 0..(line_no - 1)

\* The only member of a one-element set of call indices.
TheCall(idx) == CHOOSE i \in idx : TRUE

\* C13: a broll line gets speech synthesis, then video resolution, then the
\* scene render, each once; a search made for the line asks for the
\* duration of the line's audio as minimum duration, and the render
\* receives that audio asset.
C13_BrollStepOrder ==
    /\ \A k \in FinishedLines :
          Route(script_lines[k + 1], avatar) = "broll" =>
            /\ Cardinality(CallsFor("generate_audio", k)) = 1
            /\ Cardinality(CallsFor("render_scene", k)) = 1
            /\ Cardinality(CallsFor("search_video", k)) <= 1
            /\ LET tts == TheCall(CallsFor("generate_audio", k))
                   render == TheCall(CallsFor("render_scene", k))
               IN /\ tts < render
                  /\ calls[render].arg.audio.file_path = calls[tts].arg.output
                  /\ \A m \in CallsFor("search_video", k) :
                        /\ tts < m
                        /\ m < render
                        /\ calls[m].arg.min_duration
                              = calls[render].arg.audio.duration
    /\ pc = "media" =>
          /\ CallsFor("search_video", line_no) = {}
          /\ calls[Len(calls)].op = "generate_audio"
          /\ calls[Len(calls)].line = line_no
          /\ audio_asset.file_path = calls[Len(calls)].arg.output
    /\ pc = "render" =>
          /\ CallsFor("render_scene", line_no) = {}
          /\ \A m \in CallsFor("search_video", line_no) :
                calls[m].arg.min_duration = audio_asset.duration

C13_Witness ==
    /\ pc = "done"
    /\ \E m \in CallsOf("search_video") : calls[m].arg.min_duration = 40
    /\ \E m \in CallsOf("search_video") : calls[m].arg.min_duration = 0
    /\ \E i \in CallsOf("render_scene") : calls[i].arg.audio.duration = 40

\* How many calls of this method execute has made for line k.
NumCalls(op, k) == Cardinality(CallsFor(op, k))

\* The calls made for line k, as counts: title card, avatar, speech, scene
\* render.
CallProfile(k) ==
    <<NumCalls("render_title_card", k), NumCalls("generate_avatar_video", k),
      NumCalls("generate_audio", k), NumCalls("render_scene", k)>>

\* C14: a line tagged title by type or scene_type gets a title card and no
\* speech, media or avatar call; an avatar line gets only the avatar call
\* when a provider is configured and is handled as broll when none is;
\* every other line is handled as broll.
C14_ThreeRoutes ==
    \A k \in FinishedLines :
        LET line == script_lines[k + 1]
            tagged_title == line.type = "title" \/ line.scene_type = "title"
            tagged_avatar == line.scene_type = "avatar"
        IN /\ tagged_title =>
                /\ CallProfile(k) = <<1, 0, 0, 0>>
                /\ CallsFor("search_video", k) = {}
           /\ (~tagged_title /\ tagged_avatar /\ avatar) =>
                /\ CallProfile(k) = <<0, 1, 0, 0>>
                /\ CallsFor("search_video", k) = {}
           /\ (~tagged_title /\ ~(tagged_avatar /\ avatar)) =>
                CallProfile(k) = <<0, 0, 1, 1>>

C14_Witness ==
    /\ pc = "done"
    /\ ~avatar
    /\ raw_script = <<TitleSceneItem, AvatarItem>>
    /\ CallProfile(0) = <<1, 0, 0, 0>>
    /\ CallProfile(1) = <<0, 0, 1, 1>>

\* The finished lines that took the broll route, by index.
FinishedBroll ==
    {k \in FinishedLines : Route(script_lines[k + 1], avatar) = "broll"}

\* The video handed to render_scene for line k.
RenderedVideo(k) == calls[TheCall(CallsFor("render_scene", k))].arg.video.file_path

\* C15: for a broll line, a custom media file that exists is used without
\* any search; a custom path whose file is missing leads to one search for
\* the fixed fallback query and the run goes on; with no custom path there
\* is one search for the line's own search phrase.
C15_VideoResolution ==
    /\ \A k \in FinishedBroll :
          LET line == script_lines[k + 1]
              custom == line.custom_media_path
              searches == CallsFor("search_video", k)
          IN /\ (custom # "" /\ custom \in disk) =>
                  /\ searches = {}
                  /\ RenderedVideo(k) = custom
             /\ (custom # "" /\ custom \notin disk) =>
                  /\ Cardinality(searches) = 1
                  /\ calls[TheCall(searches)].arg.query
                        = "abstract dark luxury texture cinematic"
                  /\ RenderedVideo(k) = calls[TheCall(searches)].arg.output
             /\ custom = "" =>
                  /\ Cardinality(searches) = 1
                  /\ calls[TheCall(searches)].arg.query = line.search_query
                  /\ RenderedVideo(k) = calls[TheCall(searches)].arg.output
    /\ (pc = "render" /\ CurrentLine.custom_media_path = LostMedia) =>
          /\ Cardinality(CallsFor("search_video", line_no)) = 1
          /\ video_asset.file_path = VideoRawPath(line_no)
          /\ failures \cap {"search_video", "generate_audio"} = {}

C15_Witness ==
    /\ pc = "done"
    /\ raw_script = <<OwnMediaItem, LostMediaItem>>
    /\ RenderedVideo(0) = OwnMedia
    /\ CallsFor("search_video", 0) = {}
    /\ RenderedVideo(1) = VideoRawPath(1)

\* The emphasis word of line k as the script file gives it.
ScriptHighlight(k) == Get(raw_script[k + 1], "highlight_word", "")

\* The emphasis word handed to render_scene for line k.
RenderedHighlight(k) ==
    calls[TheCall(CallsFor("render_scene", k))].arg.highlight_word

\* Line k is a broll line whose custom media path is supplied but missing.
CustomMissing(k) ==
    LET custom == script_lines[k + 1].custom_media_path
    IN custom # "" /\ custom \notin disk

\* w is the first of the longest words of the text.
IsFirstLongest(w, text) ==
    \E i \in DOMAIN Words(text) :
        /\ Words(text)[i] = w
        /\ \A j \in DOMAIN Words(text) :
              /\ Len(Words(text)[j]) <= Len(w)
              /\ Len(Words(text)[j]) = Len(w) => i <= j

PastOutro == pc \in {"music", "concat", "in_concat", "done"}

\* execute is past the intro step.
PastIntro == pc \in {"line", "media", "render"} \/ PastOutro

\* What C20 says of both the intro and the outro: a render call is made at
\* most once and only when the output file did not exist, and an existing
\* file is put in the list without a render call.
RenderedOnlyWhenMissing ==
    /\ Cardinality(CallsOf("render_branded_intro")) <= 1
    /\ Cardinality(CallsOf("render_logo_outro")) <= 1
    /\ rerun => CallsOf("render_branded_intro") = {}
    /\ rerun => CallsOf("render_logo_outro") = {}
    /\ (PastIntro /\ ~rerun) => CallsOf("render_branded_intro") # {}
    /\ (PastOutro /\ ~rerun /\ OutroSource \in disk) =>
          CallsOf("render_logo_outro") # {}
    /\ OutroSource \notin disk => CallsOf("render_logo_outro") = {}

C17_UniformStreams == rd_pc = "returned" => rd_out = StandardFragment

\* The status requests _poll_video_status may send at most.
MaxStatusRequests == MaxWaitSeconds \div PollInterval

\* C18: the status polling of the avatar provider is bounded.  It sends at
\* most max_wait_seconds / poll_interval status requests (120 with 600 and
\* 5); a job that stays pending or processing gets exactly that many and
\* then the timeout error is raised, which leaves generate_avatar_video with
\* no file written; and the call always ends.
C18_BoundedPolling ==
    /\ [](/\ hg_requests <= MaxStatusRequests
          /\ hg_requests * PollInterval <= hg_elapsed + PollInterval
          /\ (hg_elapsed = MaxWaitSeconds /\ hg_pc # "poll")
                => (hg_pc = "raised" /\ hg_error = "timeout")
          /\ hg_error = "timeout"
                => /\ hg_pc = "raised"
                   /\ hg_requests = MaxStatusRequests
                   /\ hg_elapsed = MaxWaitSeconds
                   /\ hg_files = {})
    /\ <>(hg_pc \in {"returned", "raised"})

\* The job stayed pending for 120 requests and the timeout was raised.
C18_Witness ==
    /\ hg_error = "timeout"
    /\ hg_requests = 120
    /\ hg_pc = "raised"

\* No adapter has been called and no fragment file written.
NothingDone ==
    /\ calls = <<>>
    /\ media = <<>>
    /\ scenes = <<>>
    /\ cmd_log = <<>>
    /\ px_requests = <<>>

\* C19: a missing script file or a missing required credential is fatal at
\* the start: the run ends with an error before any adapter (speech, media
\* search, avatar, transcoder) is called and before any fragment is written.
C19_FatalAtStartup ==
    /\ ("PEXELS_API_KEY" \notin env /\ st_pc # "config")
            => (st_pc = "raised" /\ pc = "idle" /\ NothingDone)
    /\ (use_avatar /\ "HEYGEN_API_KEY" \notin env
            /\ st_pc \notin {"config", "adapters"})
            => (st_pc = "raised" /\ pc = "idle" /\ NothingDone)
    /\ ~script_file
            => /\ pc \in {"idle", "load", "raised"}
               /\ pc = "raised" => failures = {"load_script"}
               /\ st_pc = "returned" => pc = "idle"
               /\ NothingDone

\* execute was called on a missing script file and open() has raised.
C19_Witness ==
    /\ ~script_file
    /\ st_pc = "execute"
    /\ pc = "raised"
    /\ failures = {"load_script"}

\* C24: search_video caches by destination file.  Called on a path that
\* holds a non-empty file it sends no request, leaves the file as it is and
\* returns an asset whose file_path is the output path, whatever the query;
\* an empty file is not a cached one, and a search request is sent.
C24_CacheByFile ==
    [][/\ (px_pc = "enter" /\ px_file = "nonempty")
            => /\ px_pc' = "done"
               /\ px_requests' = px_requests
               /\ px_file' = px_file
               /\ px_result'.file_path = px_output_path
       /\ (px_pc = "enter" /\ px_file = "empty") => px_pc' = "search"
       /\ px_pc = "search" => Len(px_requests') = Len(px_requests) + 1]_vars

\* A call on a cached file has returned without a request.
C24_Witness ==
    /\ px_pc = "done"
    /\ px_requests = <<>>
    /\ px_file = "nonempty"
    /\ px_result.file_path = px_output_path

\* The answers to a status request that make _poll_video_status raise.
RaisingAnswers ==
    {"http_error", "no_data", "failed", "unknown", "completed_no_url"}

\* C25: _poll_video_status returns a URL only on the answer completed with a
\* video_url; a non-200 response, a response without data, the status
\* failed, an unknown status and completed without a URL each raise at once,
\* with no further status request; only pending and processing lead to a
\* wait and another turn of the loop.
C25_PollOutcomes ==
    [][hg_pc = "poll" =>
        /\ hg_pc' \in {"download", "normalize", "cleanup", "returned"}
            => (hg_status' = "completed" /\ hg_pc' = "download")
        /\ hg_requests' # hg_requests =>
            /\ hg_requests' = hg_requests + 1
            /\ hg_status' \in RaisingAnswers
                => /\ hg_pc' = "raised"
                   /\ hg_error' = hg_status'
                   /\ hg_elapsed' = hg_elapsed
            /\ hg_status' \in {"pending", "processing"}
                <=> (hg_pc' = "poll" /\ hg_elapsed' = hg_elapsed + PollInterval)
            /\ hg_status' = "completed"
                <=> (hg_pc' = "download" /\ hg_elapsed' = hg_elapsed)]_vars
    /\ [][hg_pc = "raised" => UNCHANGED hg_requests]_vars

\* A status request after some waiting was answered with an unknown status
\* and the poll raised.
C25_Witness ==
    /\ hg_pc = "raised"
    /\ hg_status = "unknown"
    /\ hg_error = "unknown"
    /\ hg_requests > 1

\* The steps of generate_avatar_video in the order of the code.
HeyGenSteps == <<"create", "poll", "download", "normalize", "cleanup", "returned">>

StepIndex(p) == CHOOSE i \in DOMAIN HeyGenSteps : HeyGenSteps[i] = p

\* C29: generate_avatar_video runs create, poll, download, normalize and
\* delete-raw strictly in this order, a failure at any step prevents every
\* later step, and after a successful return, whatever the output path, the
\* output file exists and the raw download does not.
C29_StepOrder ==
    /\ [][/\ (hg_pc \in {"returned", "raised"}) => UNCHANGED heygenVars
          /\ (hg_pc \notin {"returned", "raised"} /\ hg_pc' # "raised")
                => \/ StepIndex(hg_pc') = StepIndex(hg_pc) + 1
                   \/ hg_pc' = "poll" /\ hg_pc = "poll"
          /\ hg_files' # hg_files
                => hg_pc \in {"download", "normalize", "cleanup"}
          /\ hg_pc' = "raised" => hg_files' = hg_files]_vars
    /\ [](hg_pc = "returned" => hg_files = {hg_output_path})
    /\ [](hg_pc = "returned"
            => /\ hg_output_path \in hg_files
               /\ DownloadPath(hg_output_path) \notin hg_files)
    /\ [](hg_pc \in {"create", "poll", "download"} => hg_files = {})
    /\ [](hg_pc = "normalize" => Cardinality(hg_files) = 1)

\* The call has returned for the driver's path: the output is there, the raw
\* download is gone.
C29_Witness ==
    /\ hg_pc = "returned"
    /\ hg_files = {<<"scene_0", ".mp4">>}
    /\ hg_output_path = <<"scene_0", ".mp4">>
    /\ hg_requests > 1

\* C30: every render removes the temporary text file it has written before
\* it returns or raises, so no such file is left in the assets directory
\* after any sequence of renders.  render_scene breaks it: the file of the
\* emphasis word is written and never removed.
C30_NoTextFileLeft ==
    rd_pc \in {"returned", "raised"} => rd_text_files = {}

\* C26: once the cross-fade command has succeeded, concat_scenes never
\* enters the hard-cut fallback: the output is the cross-faded video, and a
\* failure of the music post-pass raises.  The handler around the cross-fade
\* block breaks it: it also catches the error of the music post-pass.
C26_NoFallbackAfterXfade ==
    Succeeded("xfade")
        => /\ cs_pc \notin {"simple", "simple_run"}
           /\ CountCmd("concat") = 0
           /\ cs_pc = "done" => fs_output.cuts = "xfade"
           /\ (Failed("mix") /\ cs_pc # "music_mix") => cs_pc = "raised"

\* C27: after concat_scenes has returned without raising, whatever the
\* output path and the path taken, a file is at output_file and neither the
\* play-list concat_list.txt nor the *_no_music temporary remains; the
\* play-list is removed as well when _concat_simple raises.
C27_NoIntermediateLeft ==
    /\ cs_pc = "done"
        => /\ fs_output.exists
           /\ ~fs_temp.exists
           /\ ~fs_list.exists
    /\ cs_pc = "raised" => ~fs_list.exists
    /\ fs_list.exists => cs_pc \in {"simple_run", "music_probe", "music_mix"}

\* A hard-cut assembly with music has returned after the cross-fade failed:
\* the play-list and the temporary were both written and are both gone.
C27_Witness ==
    /\ cs_pc = "done"
    /\ Failed("xfade")
    /\ Succeeded("concat")
    /\ Succeeded("mix")
    /\ fs_output.exists
    /\ ~fs_temp.exists
    /\ ~fs_list.exists

\* C28: whenever a cross-fade chain was built (every fragment at least 2t
\* long, t > 0) its offsets are non-negative and strictly increasing, the
\* windows [offset_k, offset_k + t] of consecutive steps do not overlap, and
\* every window ends no later than the running composite it is applied to.
C28_XfadeWindows ==
    vf_parts # <<>> =>
        /\ transition_duration > 0
        /\ \A k \in DOMAIN vf_parts :
            /\ vf_parts[k].offset >= 0
            /\ vf_parts[k].offset + vf_parts[k].duration <= CompositeLength(k - 1)
        /\ \A k \in 1..(Len(vf_parts) - 1) :
            /\ vf_parts[k].offset < vf_parts[k + 1].offset
            /\ vf_parts[k + 1].offset >= vf_parts[k].offset + vf_parts[k].duration

\* A chain of two steps over fragments that are exactly 2t long has run.
C28_Witness ==
    /\ Len(vf_parts) = 2
    /\ Succeeded("xfade")
    /\ transition_duration = 4
    /\ \A i \in DOMAIN scene_files : media[scene_files[i]] = 8
    /\ vf_parts[2].offset = vf_parts[1].offset + 4

(* --------------------------- MusicAdapter claims ------------------------ *)

\* The paths of the regular files of the mood directory whose extension,
\* whatever its case, is a supported one; none when no directory is there.
SupportedFiles(mood) ==
    IF MoodDir(mood) = "dir"
    THEN {[mood |-> mood, name |-> f.name] :
             f \in {g \in mu_contents :
                       /\ g.kind = "file"
                       /\ g.name[1] # ""
                       /\ g.name[2] \in {".mp3", ".MP3", ".wav", ".WAV",
                                         ".m4a", ".aac", ".ogg"}}}
    ELSE {}

\* C21: get_music_track(mood, min_duration) either returns the path of a
\* regular file of {music_dir}/{mood} with a supported extension, in any
\* case, or raises FileNotFoundError, and it raises exactly when the mood
\* directory does not exist or holds no such file; min_duration has no part
\* in the result.
C21_TrackOrNotFound ==
    mu_op.op = "get_music_track" =>
        /\ \/ /\ mu_result.kind = "path"
              /\ [mood |-> mu_result.mood, name |-> mu_result.name]
                     \in SupportedFiles(mu_op.mood)
           \/ mu_result.kind = "FileNotFoundError"
        /\ mu_result.kind = "FileNotFoundError" <=>
               SupportedFiles(mu_op.mood) = {}
        /\ \A d \in MinDurations :
               GetMusicTrackOutcomes(mu_op.mood, d)
                   = GetMusicTrackOutcomes(mu_op.mood, mu_op.min_duration)

\* C22: get_tracks_for_mood(mood) returns exactly the regular files of
\* {music_dir}/{mood} with a supported extension, and the empty list,
\* without raising, when there is no mood directory; get_music_track
\* succeeds exactly when this list is not empty and returns a member of it.
C22_TracksForMood ==
    /\ mu_op.op = "get_tracks_for_mood" =>
          /\ mu_result.kind = "list"
          /\ mu_result.value = SupportedFiles(mu_op.mood)
    /\ mu_pc = "ready" =>
          \A mood \in Moods, d \in MinDurations :
              LET list == GetTracksForMoodOutcome(mood)
                  got == GetMusicTrackOutcomes(mood, d)
              IN  /\ list.kind = "list"
                  /\ (\E r \in got : r.kind = "path") <=> list.value # {}
                  /\ \A r \in got :
                        r.kind = "path" =>
                            [mood |-> r.mood, name |-> r.name] \in list.value

====
